---- MODULE Spec2Model ----
(***************************************************************************)
(* Cody CLI: the command risk gate of run_command, the agent loop, the     *)
(* conversation store and the attended prompt loop, as a state machine.    *)
(*                                                                         *)
(* Text is modelled as a sequence of one-character strings, so matching,   *)
(* trimming, concatenation and containment are computed, not assumed.      *)
(***************************************************************************)
EXTENDS Integers, Sequences, FiniteSets

(***************************************************************************)
(* Text helpers (JavaScript string and RegExp primitives).                 *)
(***************************************************************************)
UpperSeq == <<"A", "B", "C", "D", "E", "F", "G", "H", "I", "J", "K", "L", "M", "N", "O", "P", "Q", "R", "S", "T", "U", "V", "W", "X", "Y", "Z">>
LowerSeq == <<"a", "b", "c", "d", "e", "f", "g", "h", "i", "j", "k", "l", "m", "n", "o", "p", "q", "r", "s", "t", "u", "v", "w", "x", "y", "z">>
DigitSeq == <<"0", "1", "2", "3", "4", "5", "6", "7", "8", "9">>

Range(s) == {s[i] : i \in 1..Len(s)}

UpperChars == Range(UpperSeq)
WordChars == Range(UpperSeq) \cup Range(LowerSeq) \cup Range(DigitSeq) \cup {"_"}

\* \w of a RegExp: [A-Za-z0-9_]
IsWordChar(c) == c \in WordChars

\* \s of a RegExp (the white space of the modelled alphabet)
IsSpace(c) == c \in {" ", "\t", "\n", "\r"}

\* what "." of a RegExp does not match
IsLineTerminator(c) == c \in {"\n", "\r"}

\* the literal lit occurs in s at position i
LitAt(s, i, lit) ==
    /\ i >= 1
    /\ i + Len(lit) - 1 <= Len(s)
    /\ SubSeq(s, i, i + Len(lit) - 1) = lit

\* String.prototype.includes
Contains(s, lit) == \E i \in 1..(Len(s) + 1) : LitAt(s, i, lit)

WordCharAt(s, i) == i >= 1 /\ i <= Len(s) /\ IsWordChar(s[i])

\* \b of a RegExp, between positions i-1 and i
Boundary(s, i) == WordCharAt(s, i - 1) # WordCharAt(s, i)

\* \s* over the positions i..j-1
AllSpace(s, i, j) == \A k \in i..(j - 1) : IsSpace(s[k])

\* .* over the positions i..j-1
NoLineTerminator(s, i, j) == \A k \in i..(j - 1) : ~IsLineTerminator(s[k])

\* String.prototype.toLowerCase
toLowerCase(s) ==
    [i \in 1..Len(s) |->
        IF s[i] \in UpperChars
        THEN LowerSeq[CHOOSE k \in 1..Len(UpperSeq) : UpperSeq[k] = s[i]]
        ELSE s[i]]

\* String.prototype.trim
trim(s) ==
    LET keep == {i \in 1..Len(s) : ~IsSpace(s[i])}
    IN  IF keep = {} THEN <<>>
        ELSE SubSeq(s, CHOOSE i \in keep : \A k \in keep : i <= k,
                       CHOOSE i \in keep : \A k \in keep : i >= k)

(***************************************************************************)
(* JavaScript values that reach a tool as arguments.                       *)
(***************************************************************************)
JsString(s) == [t |-> "string", v |-> s]
JsUndefined == [t |-> "undefined", v |-> <<>>]
JsNull == [t |-> "null", v |-> <<>>]
JsNumber(digits) == [t |-> "number", v |-> digits]

\* String(value), as RegExp.prototype.test and a template literal apply it
StringOf(val) ==
    CASE val.t = "string" -> val.v
      [] val.t = "number" -> val.v
      [] val.t = "undefined" -> <<"u", "n", "d", "e", "f", "i", "n", "e", "d">>
      [] val.t = "null" -> <<"n", "u", "l", "l">>
      [] OTHER -> <<"[", "o", "b", "j", "e", "c", "t", " ", "O", "b", "j", "e", "c", "t", "]">>

(***************************************************************************)
(* src/tools/runCommand.ts: the dangerous-pattern rules.                   *)
(***************************************************************************)
\* /\bw\b/
MatchWord(s, w) ==
    \E i \in 1..Len(s) :
        LitAt(s, i, w) /\ Boundary(s, i) /\ Boundary(s, i + Len(w))

\* \s+ from position i followed by the literal b and \b
SpacesThenWord(s, i, b) ==
    \E j \in (i + 1)..Len(s) :
        LitAt(s, j, b) /\ AllSpace(s, i, j) /\ Boundary(s, j + Len(b))

\* The pattern anchored to the whole command: /^a b$/
MatchTwoWords_Anchored(s, a, b) == s = a \o <<" ">> \o b

\* /\ba\s+b\b/
MatchTwoWords(s, a, b) ==
    \E i \in 1..Len(s) :
        /\ LitAt(s, i, a)
        /\ Boundary(s, i)
        /\ SpacesThenWord(s, i + Len(a), b)

\* /\ba\s+b\s+c\b/
MatchThreeWords(s, a, b, c) ==
    \E i \in 1..Len(s) :
        /\ LitAt(s, i, a)
        /\ Boundary(s, i)
        /\ \E j \in (i + Len(a) + 1)..Len(s) :
            /\ LitAt(s, j, b)
            /\ AllSpace(s, i + Len(a), j)
            /\ SpacesThenWord(s, j + Len(b), c)

\* /w.*\|\s*(ba)?sh/
MatchPipeToShell(s, w) ==
    \E i \in 1..Len(s) :
        /\ LitAt(s, i, w)
        /\ \E j \in (i + Len(w))..Len(s) :
            /\ s[j] = "|"
            /\ NoLineTerminator(s, i + Len(w), j)
            /\ \E k \in (j + 1)..Len(s) :
                /\ LitAt(s, k, <<"s", "h">>) \/ LitAt(s, k, <<"b", "a", "s", "h">>)
                /\ AllSpace(s, j + 1, k)

\* /\bgit\s+push\s+.*--force\b/
MatchForcePush(s) ==
    \E i \in 1..Len(s) :
        /\ LitAt(s, i, <<"g", "i", "t">>)
        /\ Boundary(s, i)
        /\ \E j \in (i + 4)..Len(s) :
            /\ LitAt(s, j, <<"p", "u", "s", "h">>)
            /\ AllSpace(s, i + 3, j)
            /\ \E k \in (j + 5)..Len(s) :
                /\ AllSpace(s, j + 4, k)
                /\ \E m \in k..Len(s) :
                    /\ LitAt(s, m, <<"-", "-", "f", "o", "r", "c", "e">>)
                    /\ NoLineTerminator(s, k, m)
                    /\ Boundary(s, m + 7)

BLOCKED_PATTERNS == <<
    [reason |-> <<"R", "e", "c", "u", "r", "s", "i", "v", "e", " ", "f", "o", "r", "c", "e", " ", "d", "e", "l", "e", "t", "e">>],
    [reason |-> <<"R", "e", "c", "u", "r", "s", "i", "v", "e", " ", "d", "e", "l", "e", "t", "e">>],
    [reason |-> <<"F", "o", "r", "c", "e", " ", "d", "e", "l", "e", "t", "e">>],
    [reason |-> <<"D", "i", "r", "e", "c", "t", "o", "r", "y", " ", "r", "e", "m", "o", "v", "a", "l">>],
    [reason |-> <<"S", "u", "p", "e", "r", "u", "s", "e", "r", " ", "c", "o", "m", "m", "a", "n", "d">>],
    [reason |-> <<"S", "y", "s", "t", "e", "m", " ", "s", "h", "u", "t", "d", "o", "w", "n">>],
    [reason |-> <<"S", "y", "s", "t", "e", "m", " ", "r", "e", "b", "o", "o", "t">>],
    [reason |-> <<"F", "o", "r", "c", "e", " ", "k", "i", "l", "l", " ", "p", "r", "o", "c", "e", "s", "s">>],
    [reason |-> <<"K", "i", "l", "l", " ", "a", "l", "l", " ", "p", "r", "o", "c", "e", "s", "s", "e", "s">>],
    [reason |-> <<"L", "o", "w", "-", "l", "e", "v", "e", "l", " ", "d", "i", "s", "k", " ", "o", "p", "e", "r", "a", "t", "i", "o", "n">>],
    [reason |-> <<"F", "i", "l", "e", "s", "y", "s", "t", "e", "m", " ", "c", "r", "e", "a", "t", "i", "o", "n">>],
    [reason |-> <<"R", "e", "m", "o", "t", "e", " ", "s", "c", "r", "i", "p", "t", " ", "e", "x", "e", "c", "u", "t", "i", "o", "n">>],
    [reason |-> <<"R", "e", "m", "o", "t", "e", " ", "s", "c", "r", "i", "p", "t", " ", "e", "x", "e", "c", "u", "t", "i", "o", "n">>],
    [reason |-> <<"F", "o", "r", "c", "e", " ", "p", "u", "s", "h">>],
    [reason |-> <<"H", "a", "r", "d", " ", "r", "e", "s", "e", "t">>] >>

\* blocked.pattern.test(command) for the n-th rule of BLOCKED_PATTERNS
PatternTest(n, s) ==
    CASE n = 1 -> MatchTwoWords(s, <<"r", "m">>, <<"-", "r", "f">>)
      [] n = 2 -> MatchTwoWords(s, <<"r", "m">>, <<"-", "r">>)
      [] n = 3 -> MatchTwoWords(s, <<"r", "m">>, <<"-", "f">>)
      [] n = 4 -> MatchWord(s, <<"r", "m", "d", "i", "r">>)
      [] n = 5 -> MatchWord(s, <<"s", "u", "d", "o">>)
      [] n = 6 -> MatchWord(s, <<"s", "h", "u", "t", "d", "o", "w", "n">>)
      [] n = 7 -> MatchWord(s, <<"r", "e", "b", "o", "o", "t">>)
      [] n = 8 -> MatchTwoWords(s, <<"k", "i", "l", "l">>, <<"-", "9">>)
      [] n = 9 -> MatchWord(s, <<"k", "i", "l", "l", "a", "l", "l">>)
      [] n = 10 -> MatchWord(s, <<"d", "d">>)
      [] n = 11 -> MatchWord(s, <<"m", "k", "f", "s">>)
      [] n = 12 -> MatchPipeToShell(s, <<"c", "u", "r", "l">>)
      [] n = 13 -> MatchPipeToShell(s, <<"w", "g", "e", "t">>)
      [] n = 14 -> MatchForcePush(s)
      [] n = 15 -> MatchThreeWords(s, <<"g", "i", "t">>, <<"r", "e", "s", "e", "t">>, <<"-", "-", "h", "a", "r", "d">>)

\* The index of the first rule that matches, 0 for null.
checkBlocklist(command) ==
    LET s == StringOf(command)
        hits == {n \in 1..Len(BLOCKED_PATTERNS) : PatternTest(n, s)}
    IN  IF hits = {} THEN 0
        ELSE CHOOSE n \in hits : \A m \in hits : n <= m

(***************************************************************************)
(* JSON.parse on the payloads of tool calls: objects, arrays, strings with *)
(* the simple escapes, numbers and the three literals.                     *)
(***************************************************************************)
JsBoolean(text) == [t |-> "boolean", v |-> text]
JsArray(elems) == [t |-> "array", v |-> elems]
JsObject(map) == [t |-> "object", v |-> map]
EmptyMap == [k \in {} |-> JsUndefined]
Put(map, k, val) == [x \in DOMAIN map \cup {k} |-> IF x = k THEN val ELSE map[x]]

\* value[key] of a JavaScript object held as a map
Get(map, key) == IF key \in DOMAIN map THEN map[key] ELSE JsUndefined

\* value[key]: undefined on a value that is not an object with that key
Prop(val, key) == IF val.t = "object" THEN Get(val.v, key) ELSE JsUndefined

Failed == [ok |-> FALSE, val |-> JsUndefined, pos |-> 0]
Parsed(val, pos) == [ok |-> TRUE, val |-> val, pos |-> pos]

IsJsonSpace(c) == c \in {" ", "\t", "\n", "\r"}
IsDigit(c) == c \in Range(DigitSeq)

\* the first position from i on that holds no JSON white space
RECURSIVE SkipSpace(_, _)
SkipSpace(s, i) ==
    IF i <= Len(s) /\ IsJsonSpace(s[i]) THEN SkipSpace(s, i + 1) ELSE i

\* the first position from i on that holds no digit
RECURSIVE SkipDigits(_, _)
SkipDigits(s, i) ==
    IF i <= Len(s) /\ IsDigit(s[i]) THEN SkipDigits(s, i + 1) ELSE i

Unescape(c) ==
    CASE c = "n" -> "\n"
      [] c = "t" -> "\t"
      [] c = "r" -> "\r"
      [] OTHER -> c

\* the characters of a string literal from position i (after the opening quote)
RECURSIVE StringBody(_, _, _)
StringBody(s, i, acc) ==
    IF i > Len(s) THEN Failed
    ELSE IF s[i] = "\"" THEN Parsed(JsString(acc), i + 1)
    ELSE IF s[i] \in {"\n", "\t", "\r"} THEN Failed
    ELSE IF s[i] = "\\"
         THEN IF i + 1 <= Len(s) /\ s[i + 1] \in {"\"", "\\", "/", "n", "t", "r"}
              THEN StringBody(s, i + 2, Append(acc, Unescape(s[i + 1])))
              ELSE Failed
    ELSE StringBody(s, i + 1, Append(acc, s[i]))

\* -?(0|[1-9][0-9]*)(\.[0-9]+)?
ParseNumber(s, i) ==
    LET d == IF i <= Len(s) /\ s[i] = "-" THEN i + 1 ELSE i
        e == IF d <= Len(s) /\ s[d] = "0" THEN d + 1 ELSE SkipDigits(s, d)
        f == IF e + 1 <= Len(s) /\ s[e] = "." /\ IsDigit(s[e + 1])
             THEN SkipDigits(s, e + 1) ELSE e
    IN  IF e = d \/ (e <= Len(s) /\ s[e] = "." /\ f = e) THEN Failed
        ELSE Parsed(JsNumber(SubSeq(s, i, f - 1)), f)

RECURSIVE ParseValue(_, _)
RECURSIVE ParseMembers(_, _, _)
RECURSIVE ParseElements(_, _, _)

\* the members of an object from position i (after "{" or ","), into map
ParseMembers(s, i, map) ==
    LET k == SkipSpace(s, i)
        key == IF k <= Len(s) /\ s[k] = "\"" THEN StringBody(s, k + 1, <<>>) ELSE Failed
        c == IF key.ok THEN SkipSpace(s, key.pos) ELSE 0
        val == IF key.ok /\ c <= Len(s) /\ s[c] = ":" THEN ParseValue(s, c + 1) ELSE Failed
        e == IF val.ok THEN SkipSpace(s, val.pos) ELSE 0
    IN  IF ~val.ok \/ e > Len(s) THEN Failed
        ELSE IF s[e] = "," THEN ParseMembers(s, e + 1, Put(map, key.val.v, val.val))
        ELSE IF s[e] = "}" THEN Parsed(JsObject(Put(map, key.val.v, val.val)), e + 1)
        ELSE Failed

\* the elements of an array from position i (after "[" or ","), onto elems
ParseElements(s, i, elems) ==
    LET val == ParseValue(s, i)
        e == IF val.ok THEN SkipSpace(s, val.pos) ELSE 0
    IN  IF ~val.ok \/ e > Len(s) THEN Failed
        ELSE IF s[e] = "," THEN ParseElements(s, e + 1, Append(elems, val.val))
        ELSE IF s[e] = "]" THEN Parsed(JsArray(Append(elems, val.val)), e + 1)
        ELSE Failed

ParseValue(s, i) ==
    LET p == SkipSpace(s, i)
    IN  IF p > Len(s) THEN Failed
        ELSE IF s[p] = "{"
             THEN LET q == SkipSpace(s, p + 1)
                  IN  IF q <= Len(s) /\ s[q] = "}" THEN Parsed(JsObject(EmptyMap), q + 1)
                      ELSE ParseMembers(s, p + 1, EmptyMap)
        ELSE IF s[p] = "["
             THEN LET q == SkipSpace(s, p + 1)
                  IN  IF q <= Len(s) /\ s[q] = "]" THEN Parsed(JsArray(<<>>), q + 1)
                      ELSE ParseElements(s, p + 1, <<>>)
        ELSE IF s[p] = "\"" THEN StringBody(s, p + 1, <<>>)
        ELSE IF LitAt(s, p, <<"t", "r", "u", "e">>) THEN Parsed(JsBoolean(<<"t", "r", "u", "e">>), p + 4)
        ELSE IF LitAt(s, p, <<"f", "a", "l", "s", "e">>) THEN Parsed(JsBoolean(<<"f", "a", "l", "s", "e">>), p + 5)
        ELSE IF LitAt(s, p, <<"n", "u", "l", "l">>) THEN Parsed(JsNull, p + 4)
        ELSE ParseNumber(s, p)

\* JSON.parse(text): ok = FALSE is a SyntaxError
JSON_parse(s) ==
    LET r == ParseValue(s, 1)
    IN  IF r.ok /\ SkipSpace(s, r.pos) = Len(s) + 1 THEN r ELSE Failed

(***************************************************************************)
(* src/agent/loop.ts: parseToolArguments                                   *)
(***************************************************************************)
\* [^",\{\}\[\]]
IsBareChar(c) == c \notin {"\"", ",", "{", "}", "[", "]"}

\* the first position from i on that holds no bare character
RECURSIVE SkipBare(_, _)
SkipBare(s, i) ==
    IF i <= Len(s) /\ IsBareChar(s[i]) THEN SkipBare(s, i + 1) ELSE i

\* argsString.replace(/: ([^",\{\}\[\]]+)([,\}])/g, ': "$1"$2') from position i
RECURSIVE QuoteBareValues(_, _)
QuoteBareValues(s, i) ==
    IF i > Len(s) THEN <<>>
    ELSE LET e == SkipBare(s, i + 2)
         IN  IF /\ LitAt(s, i, <<":", " ">>)
                /\ e > i + 2
                /\ e <= Len(s)
                /\ s[e] \in {",", "}"}
             THEN <<":", " ", "\"">> \o SubSeq(s, i + 2, e - 1) \o <<"\"", s[e]>>
                    \o QuoteBareValues(s, e + 1)
             ELSE <<s[i]>> \o QuoteBareValues(s, i + 1)

\* a payload that is blank only when it is empty
IsBlankPayload_EmptyOnly(argsString) == argsString = <<>>

\* STEP 1 of lines 90-94: the payload is empty or whitespace only
IsBlankPayload(argsString) == trim(argsString) = <<>>

ArgReturn(val, parses, repairs) ==
    [kind |-> "returned", value |-> val, parses |-> parses, repairs |-> repairs]

\* a parser that repairs the payload before its first parse
parseToolArgumentsSteps_RepairFirst(argsString) ==
    IF IsBlankPayload(argsString) THEN ArgReturn(JsObject(EmptyMap), 0, 0)
    ELSE LET fixed == JSON_parse(QuoteBareValues(argsString, 1))
         IN  IF fixed.ok THEN ArgReturn(fixed.val, 1, 1)
             ELSE ArgReturn(JsObject(EmptyMap), 1, 1)

\* lines 90-116 with what they did: how the call ended, the value returned,
\* the number of JSON.parse calls and the number of repair passes
parseToolArgumentsSteps(argsString) ==
    IF IsBlankPayload(argsString) THEN ArgReturn(JsObject(EmptyMap), 0, 0)
    ELSE LET direct == JSON_parse(argsString)
         IN  IF direct.ok THEN ArgReturn(direct.val, 1, 0)
             ELSE LET fixed == JSON_parse(QuoteBareValues(argsString, 1))
                  IN  IF fixed.ok THEN ArgReturn(fixed.val, 2, 1)
                      ELSE ArgReturn(JsObject(EmptyMap), 2, 1)

\* lines 90-116; the result is the JavaScript value returned
parseToolArguments(argsString) == parseToolArgumentsSteps(argsString).value

(***************************************************************************)
(* src/agent/loop.ts: processThinkingTags                                  *)
(***************************************************************************)
OpenTag == <<"<", "t", "h", "i", "n", "k", ">">>
CloseTag == <<"<", "/", "t", "h", "i", "n", "k", ">">>

\* the first position from i on where lit occurs, 0 if none
IndexOf(s, lit, i) ==
    LET hits == {k \in i..(Len(s) - Len(lit) + 1) : LitAt(s, k, lit)}
    IN  IF hits = {} THEN 0 ELSE CHOOSE k \in hits : \A m \in hits : k <= m

\* s from position i to its end
Tail_(s, i) == SubSeq(s, i, Len(s))

\* content.replace(/<think>[\s\S]*?<\/think>/g, "")
RECURSIVE RemoveThinkBlocks(_)
RemoveThinkBlocks(s) ==
    LET o == IndexOf(s, OpenTag, 1)
        c == IF o = 0 THEN 0 ELSE IndexOf(s, CloseTag, o + Len(OpenTag))
    IN  IF c = 0 THEN s
        ELSE SubSeq(s, 1, o - 1) \o RemoveThinkBlocks(Tail_(s, c + Len(CloseTag)))

\* an extraction that only knows the full <think>...</think> form
ExtractThinking_FullOnly(content) ==
    LET o == IndexOf(content, OpenTag, 1)
        c == IF o = 0 THEN 0 ELSE IndexOf(content, CloseTag, o + Len(OpenTag))
    IN  IF c # 0
        THEN [thinking |-> trim(SubSeq(content, o + Len(OpenTag), c - 1)),
              response |-> trim(RemoveThinkBlocks(content))]
        ELSE [thinking |-> <<>>, response |-> content]

\* lines 128-143: the reasoning and the response body
ExtractThinking(content) ==
    LET o == IndexOf(content, OpenTag, 1)
        c == IF o = 0 THEN 0 ELSE IndexOf(content, CloseTag, o + Len(OpenTag))
        p == IndexOf(content, CloseTag, 1)
    IN  IF c # 0
        THEN [thinking |-> trim(SubSeq(content, o + Len(OpenTag), c - 1)),
              response |-> trim(RemoveThinkBlocks(content))]
        ELSE IF p # 0
        THEN [thinking |-> trim(SubSeq(content, 1, p - 1)),
              response |-> trim(Tail_(content, p + Len(CloseTag)))]
        ELSE [thinking |-> <<>>, response |-> content]

\* a function that never shows the reasoning
processThinkingTags_AlwaysHide(content, showThinking) == ExtractThinking(content).response

\* lines 126-154 (a colour code or a rule glyph is one element of the text)
processThinkingTags(content, showThinking) ==
    LET x == ExtractThinking(content)
    IN  IF showThinking /\ x.thinking # <<>>
        THEN <<"(yellow)", "(rule)">> \o <<" ", "T", "h", "i", "n", "k", "i", "n", "g", " ">> \o <<"(rule)", "(reset)", "\n">>
             \o <<"(blue)">> \o x.thinking \o <<"(reset)", "\n", "\n">>
             \o <<"(green)", "(rule)">> \o <<" ", "R", "e", "s", "p", "o", "n", "s", "e", " ">> \o <<"(rule)", "(reset)", "\n">>
             \o x.response
        ELSE x.response

(***************************************************************************)
(* Bounds of the exploration.                                              *)
(***************************************************************************)
\* requests of a run that the endpoint answers from its full vocabulary
MaxRichIterations == 1
\* a new run starts only while the store holds at most this many messages
MaxStartLen == 2
\* the number of fragments a reasoning text or an answer is made of
MaxPieces == 2
\* the iterations of a boss-mode cycle in which the model may request tools
MaxBossIterations == 1
\* the cycles startBossMode runs before only an interruption is left to it
MaxCycles == 2


(***************************************************************************)
(* agent/conversation.ts: the Conversation store                           *)
(***************************************************************************)
\* getSystemPrompt(): the preamble with the working directory, as one text
SystemPrompt == <<"You are Cody, an open source coding CLI. Working directory: (cwd) ...">>

SystemMessage == [role |-> "system", content |-> JsString(SystemPrompt)]
UserMessage(text) == [role |-> "user", content |-> JsString(text)]
\* A tool message that loses the id of its request.
ToolMessage_NoId(id, text) == [role |-> "tool", tool_call_id |-> "", content |-> JsString(text)]

ToolMessage(id, text) == [role |-> "tool", tool_call_id |-> id, content |-> JsString(text)]

reset == <<SystemMessage>>
\* A store that begins every turn from the system message alone.
addUserMessage_Fresh(msgs, content) == <<msgs[1], UserMessage(content)>>

addUserMessage(msgs, content) == Append(msgs, UserMessage(content))
\* A store that drops assistant messages.
addAssistantMessage_Dropped(msgs, message) == msgs

addAssistantMessage(msgs, message) == Append(msgs, message)
\* A store that drops tool results.
addToolResults_Dropped(msgs, results) == msgs

addToolResults(msgs, results) == msgs \o results

(***************************************************************************)
(* The completion endpoint: what one request can be answered with.         *)
(***************************************************************************)
FunctionCall(id, name, arguments) ==
    [id |-> id, type |-> "function", function |-> [name |-> name, arguments |-> arguments]]

\* a tool call whose declared type is not a plain function call
CustomCall(id) ==
    [id |-> id, type |-> "custom", function |-> [name |-> "", arguments |-> <<>>]]

AssistantMessage(content, tool_calls) ==
    [role |-> "assistant", content |-> content, tool_calls |-> tool_calls]

CallLs(id) == FunctionCall(id, "run_command", <<"{", "\"", "c", "o", "m", "m", "a", "n", "d", "\"", ":", "\"", "l", "s", " ", "-", "l", "a", "\"", "}">>)
CallRm(id) == FunctionCall(id, "run_command", <<"{", "\"", "c", "o", "m", "m", "a", "n", "d", "\"", ":", " ", "\"", "r", "m", " ", "-", "r", "f", " ", "/", "t", "m", "p", "/", "x", "\"", "}">>)
CallRead(id) == FunctionCall(id, "read_file", <<"{", "\"", "p", "a", "t", "h", "\"", ":", "\"", "h", "e", "l", "l", "o", ".", "p", "y", "\"", "}">>)
CallWrite(id) == FunctionCall(id, "write_file", <<"{", "\"", "p", "a", "t", "h", "\"", ":", " ", "\"", "a", ".", "t", "x", "t", "\"", ",", " ", "\"", "c", "o", "n", "t", "e", "n", "t", "\"", ":", " ", "\"", "h", "i", "\"", "}">>)
CallUnknown(id) == FunctionCall(id, "search_web", <<"{", "b", "a", "d">>)
\* a run_command request without its required argument
CallNoCommand(id) == FunctionCall(id, "run_command", <<"{", "}">>)

\* the tool-call lists an assistant message may carry
ToolCallLists ==
    { <<CallLs("call_1")>>,
      <<CallRm("call_1"), CallNoCommand("call_2")>>,
      <<CustomCall("call_1"), CallRead("call_2")>>,
      <<CallUnknown("call_3"), CustomCall("call_2"), CallWrite("call_1")>>,
      <<CustomCall("call_1")>>,
      <<CallNoCommand("call_1")>> }

\* the one tool-call list of the later iterations of a run
PlainToolCalls == <<CallUnknown("call_1")>>

\* assistant messages without tool-call requests
FinalMessages ==
    { AssistantMessage(JsString(<<"d", "o", "n", "e">>), JsUndefined),
      AssistantMessage(JsString(<<"<", "t", "h", "i", "n", "k", ">", "p", "l", "a", "n", "<", "/", "t", "h", "i", "n", "k", ">", "o", "k">>), JsArray(<<>>)),
      AssistantMessage(JsNull, JsUndefined),
      AssistantMessage(JsString(<<>>), JsArray(<<>>)) }

\* Responses that fail the shape checks of lines 242-254, or a rejected request.
MalformedResponses ==
    {"rejected", "null", "no choices", "choices not an array", "empty choices",
     "choice without message"}

Malformed(kind) == [kind |-> kind, message |-> AssistantMessage(JsNull, JsUndefined)]
WellFormed(message) == [kind |-> "message", message |-> message]

\* The endpoint answers the first MaxRichIterations requests of a run with any
\* of the responses above, the later ones with PlainToolCalls, the first
\* final message or an empty choices array.
LateFinal == AssistantMessage(JsString(<<"d", "o", "n", "e">>), JsUndefined)

\* agent/loop.ts line 191: the cap on requests of an attended run
AttendedMaxIterations == 10

\* a turn whose only request is not a function call, without text
CustomOnly == AssistantMessage(JsNull, JsArray(<<CustomCall("call_1")>>))

Responses(iteration) ==
    IF iteration <= MaxRichIterations
    THEN {Malformed(k) : k \in MalformedResponses}
         \cup {WellFormed(m) : m \in FinalMessages}
         \cup {WellFormed(AssistantMessage(JsNull, JsArray(l))) : l \in ToolCallLists}
         \cup {WellFormed(AssistantMessage(JsString(<<"o", "n", " ", "i", "t">>), JsArray(PlainToolCalls)))}
    ELSE {Malformed("empty choices"),
          WellFormed(LateFinal),
          WellFormed(AssistantMessage(JsNull, JsArray(PlainToolCalls)))}
         \cup (IF iteration = AttendedMaxIterations THEN {WellFormed(CustomOnly)} ELSE {})

\* What the endpoint may answer in a boss-mode run: a final message, a
\* response without choices, or (for the first MaxBossIterations requests of
\* a run) a tool request.  The first request of the first cycle asks for a
\* command that needs approval, the later ones for a tool that does not exist.
BossResponses(iteration, cycle) ==
    {Malformed("empty choices"), WellFormed(LateFinal)}
    \cup (IF iteration <= MaxBossIterations
          THEN {WellFormed(AssistantMessage(JsNull,
                    JsArray(<<IF cycle = 1 /\ iteration = 1
                              THEN CallRm("call_1")
                              ELSE CallUnknown("call_1")>>)))}
          ELSE {})

(***************************************************************************)
(* State.                                                                  *)
(***************************************************************************)
VARIABLES
    pc,               \* where the single thread of control is suspended
    runtimeSettings,  \* src/config.ts runtimeSettings (+ approvalCallback)
    messages,         \* Conversation.messages
    options,          \* runAgentLoop: options
    iterationCount,   \* runAgentLoop: iterationCount
    toolCalls,        \* runAgentLoop: assistantMessage.tool_calls of this iteration
    idx,              \* runAgentLoop: position of the tool call being executed
    toolResults,      \* runAgentLoop: toolResults
    response,         \* runAgentLoop: the kind of the response last received
    command,          \* runCommandTool.execute: args.command
    blocked,          \* runCommandTool.execute: index of the matched rule, 0 = null
    result,           \* the ToolResult the last tool execution returned
    inv,              \* history: the current run_command invocation
    requests,         \* history: completion requests issued by the current run
    allToolCalls,     \* history: every response of the current run carried tool calls
    runStart,         \* history: the store as it was when the current run began
    ret,              \* history: how the last runAgentLoop call ended
    lastCompact,      \* history: the last call of Conversation.compact
    arg,              \* the input of the function applied on its own
    out,              \* what the function applied on its own has returned
    boss              \* startBossMode: cycle, stdin state, and how it ended

gateVars == <<command, blocked, result, inv>>
runVars == <<options, iterationCount, toolCalls, idx, toolResults, response,
             requests, allToolCalls, runStart, ret>>
loopVars == <<messages, runVars>>
sideVars == <<arg, out, boss>>
vars == <<pc, runtimeSettings, messages, options, iterationCount, toolCalls, idx,
          toolResults, response, command, blocked, result, inv, requests,
          allToolCalls, runStart, ret, lastCompact, arg, out, boss>>

NoResult == [success |-> FALSE, silent |-> FALSE, output |-> <<>>]

\* approvedEarlier: the command of the latest earlier invocation that the
\* operator approved (history kept across invocations)
NoInvocation ==
    [asked |-> 0, response |-> "none", message |-> <<>>, execStarted |-> FALSE,
     callback |-> FALSE, approvedEarlier |-> JsUndefined]

(***************************************************************************)
(* src/tools/runCommand.ts: runCommandTool.execute                         *)
(***************************************************************************)
\* A rejection reported as an ordinary failure (no silent mark).
RejectResult_NotSilent(cmd) ==
    [success |-> FALSE, silent |-> FALSE,
     output |-> <<"C", "O", "M", "M", "A", "N", "D", " ", "N", "O", "T", " ", "E", "X", "E", "C", "U", "T", "E", "D", ".", " ", "U", "s", "e", "r", " ", "r", "e", "j", "e", "c", "t", "e", "d", " ", "t", "h", "e", " ", "c", "o", "m", "m", "a", "n", "d", " ", "\"">>
                \o StringOf(cmd) \o <<"\"", ".", " ", "D", "o", " ", "N", "O", "T", " ", "c", "l", "a", "i", "m", " ", "i", "t", " ", "w", "a", "s", " ", "r", "u", "n", ".">>]

\* lines 154-160
RejectResult(cmd) ==
    [success |-> FALSE, silent |-> TRUE,
     output |-> <<"C", "O", "M", "M", "A", "N", "D", " ", "N", "O", "T", " ", "E", "X", "E", "C", "U", "T", "E", "D", ".", " ", "U", "s", "e", "r", " ", "r", "e", "j", "e", "c", "t", "e", "d", " ", "t", "h", "e", " ", "c", "o", "m", "m", "a", "n", "d", " ", "\"">>
                \o StringOf(cmd) \o <<"\"", ".", " ", "D", "o", " ", "N", "O", "T", " ", "c", "l", "a", "i", "m", " ", "i", "t", " ", "w", "a", "s", " ", "r", "u", "n", ".">>]

\* A redirect that drops the operator's instruction.
InstructResult_NoMessage(message) ==
    [success |-> FALSE, silent |-> TRUE,
     output |-> <<"C", "O", "M", "M", "A", "N", "D", " ", "N", "O", "T", " ", "E", "X", "E", "C", "U", "T", "E", "D", ".", " ", "U", "s", "e", "r", " ", "r", "e", "j", "e", "c", "t", "e", "d", " ", "t", "h", "e", " ", "c", "o", "m", "m", "a", "n", "d", ".">>]

\* lines 162-168
InstructResult(message) ==
    [success |-> FALSE, silent |-> TRUE,
     output |-> <<"C", "O", "M", "M", "A", "N", "D", " ", "N", "O", "T", " ", "E", "X", "E", "C", "U", "T", "E", "D", ".", " ", "U", "s", "e", "r", " ", "r", "e", "j", "e", "c", "t", "e", "d", " ", "a", "n", "d", " ", "s", "a", "i", "d", ":", " ", "\"">>
                \o message \o <<"\"", ".", " ", "D", "o", " ", "N", "O", "T", " ", "c", "l", "a", "i", "m", " ", "t", "h", "e", " ", "c", "o", "m", "m", "a", "n", "d", " ", "w", "a", "s", " ", "r", "u", "n", ".">>]

\* lines 173-176 (the leading warning sign is one element of the text)
BlockedResult(cmd, b) ==
    [success |-> FALSE, silent |-> FALSE,
     output |-> <<"(warning sign)">> \o <<" ", " ", "B", "L", "O", "C", "K", "E", "D", ":", " ", "\"">> \o StringOf(cmd)
                \o <<"\"", " ", "-", " ">> \o BLOCKED_PATTERNS[b].reason
                \o <<".", " ", "R", "u", "n", " ", "i", "n", "t", "e", "r", "a", "c", "t", "i", "v", "e", "l", "y", " ", "f", "o", "r", " ", "a", "p", "p", "r", "o", "v", "a", "l", " ", "p", "r", "o", "m", "p", "t", ".">>]

\* What child_process.exec can answer for a command: a zero exit with the two
\* streams, a failure carrying stderr (non-zero exit, timeout, output ceiling;
\* code "" is a missing code), or a throw before any process is spawned (a
\* command that is not a non-empty string).
ExecOutcomes(cmd) ==
    IF cmd.t = "string" /\ cmd.v # <<>>
    THEN {[kind |-> "ok", stdout |-> so, stderr |-> se, code |-> <<>>]
             : so \in {<<>>, <<"o", "u", "t", "\n">>}, se \in {<<>>, <<"w", "a", "r", "n">>}}
         \cup {[kind |-> "error", stdout |-> <<>>, stderr |-> <<"b", "o", "o", "m">>, code |-> c]
             : c \in {<<>>, <<"1">>}}
    ELSE {[kind |-> "throw", stdout |-> <<>>, stderr |-> <<"b", "a", "d", " ", "a", "r", "g", "u", "m", "e", "n", "t">>, code |-> <<>>]}

\* [stdout, stderr].filter(Boolean).join("\n")
JoinStreams(so, se) ==
    IF so = <<>> THEN se
    ELSE IF se = <<>> THEN so
    ELSE so \o <<"\n">> \o se

\* lines 180-208
ExecResult(o) ==
    CASE o.kind = "ok" ->
            LET output == trim(JoinStreams(o.stdout, o.stderr))
            IN  [success |-> TRUE, silent |-> FALSE,
                 output |-> IF output = <<>>
                            THEN <<"(", "c", "o", "m", "m", "a", "n", "d", " ", "c", "o", "m", "p", "l", "e", "t", "e", "d", " ", "w", "i", "t", "h", " ", "n", "o", " ", "o", "u", "t", "p", "u", "t", ")">>
                            ELSE output]
      [] o.kind = "error" ->
            [success |-> FALSE, silent |-> FALSE,
             output |-> <<"C", "o", "m", "m", "a", "n", "d", " ", "f", "a", "i", "l", "e", "d", " ", "(", "e", "x", "i", "t", " ", "c", "o", "d", "e", " ">>
                        \o (IF o.code = <<>> THEN <<"u", "n", "k", "n", "o", "w", "n">> ELSE o.code)
                        \o <<")", ":", " ">> \o o.stderr]
      [] OTHER ->
            [success |-> FALSE, silent |-> FALSE,
             output |-> <<"F", "a", "i", "l", "e", "d", " ", "t", "o", " ", "e", "x", "e", "c", "u", "t", "e", " ", "c", "o", "m", "m", "a", "n", "d", ":", " ">> \o o.stderr]

\* A gate that fails open when no approval callback is configured.
GateDecision_FailOpen(b, hasCallback) ==
    IF b # 0 /\ hasCallback THEN "ask" ELSE "execute"

\* lines 145-178: what execute does once the blocklist has answered b:
\* "execute", "ask" (call the approval callback) or "block".
GateDecision(b, hasCallback) ==
    IF b # 0
    THEN IF hasCallback THEN "ask" ELSE "block"
    ELSE "execute"

\* A gate that only honours the redirect, and runs a rejected command.
AfterApproval_IgnoreNo(action) ==
    IF action = "instruct" THEN "instruct" ELSE "execute"

\* lines 154-170: what execute does with the approval response.
AfterApproval(action) ==
    IF action = "no" THEN "reject"
    ELSE IF action = "instruct" THEN "instruct"
    ELSE "execute"

\* A gate that lets a command through once the operator has approved it before.
runCommand_execute_Remembering(args) ==
    LET cmd == Prop(args, <<"c", "o", "m", "m", "a", "n", "d">>)
        b == checkBlocklist(cmd)
        d == IF cmd = inv.approvedEarlier /\ cmd # JsUndefined THEN "execute"
             ELSE GateDecision(b, runtimeSettings.approvalCallback)
        i0 == [NoInvocation EXCEPT !.callback = runtimeSettings.approvalCallback,
                                   !.approvedEarlier = inv.approvedEarlier]
    IN  /\ command' = cmd
        /\ blocked' = b
        /\ CASE d = "ask" ->
                    /\ pc' = "askChoice"
                    /\ result' = NoResult
                    /\ inv' = [i0 EXCEPT !.asked = 1]
             [] d = "block" ->
                    /\ pc' = "toolDone"
                    /\ result' = BlockedResult(cmd, b)
                    /\ inv' = i0
             [] OTHER ->
                    /\ pc' = "exec"
                    /\ result' = NoResult
                    /\ inv' = [i0 EXCEPT !.execStarted = TRUE]

\* execute(args) up to its first suspension (the approval callback or exec)
\* or its return.
runCommand_execute(args) ==
    LET cmd == Prop(args, <<"c", "o", "m", "m", "a", "n", "d">>)
        b == checkBlocklist(cmd)
        d == GateDecision(b, runtimeSettings.approvalCallback)
        i0 == [NoInvocation EXCEPT !.callback = runtimeSettings.approvalCallback,
                                   !.approvedEarlier = inv.approvedEarlier]
    IN  /\ command' = cmd
        /\ blocked' = b
        /\ CASE d = "ask" ->
                    /\ pc' = "askChoice"
                    /\ result' = NoResult
                    /\ inv' = [i0 EXCEPT !.asked = 1]
             [] d = "block" ->
                    /\ pc' = "toolDone"
                    /\ result' = BlockedResult(cmd, b)
                    /\ inv' = i0
             [] OTHER ->
                    /\ pc' = "exec"
                    /\ result' = NoResult
                    /\ inv' = [i0 EXCEPT !.execStarted = TRUE]

\* execute resumed with the approval response (lines 154-181)
runCommand_resume(action, message) ==
    LET d == AfterApproval(action)
        i1 == [inv EXCEPT !.response = action, !.message = message]
    IN  /\ UNCHANGED <<command, blocked>>
        /\ CASE d = "reject" ->
                    /\ pc' = "toolDone"
                    /\ result' = RejectResult(command)
                    /\ inv' = i1
             [] d = "instruct" ->
                    /\ pc' = "toolDone"
                    /\ result' = InstructResult(message)
                    /\ inv' = i1
             [] OTHER ->
                    /\ pc' = "exec"
                    /\ result' = NoResult
                    /\ inv' = [i1 EXCEPT !.execStarted = TRUE]

\* exec answers (lines 181-208)
ExecDone ==
    /\ pc = "exec"
    /\ \E o \in ExecOutcomes(command) :
        /\ result' = ExecResult(o)
        /\ pc' = "toolDone"
    /\ UNCHANGED <<runtimeSettings, loopVars, lastCompact, sideVars, command, blocked, inv>>

(***************************************************************************)
(* src/index.ts: createApprovalPrompt, the configured approval callback    *)
(***************************************************************************)
\* What the operator may type at "Enter choice (1/2/3):"
Answers ==
    {<<"1">>, <<" ", "1", " ">>, <<"y", "e", "s">>, <<"Y">>, <<"2">>, <<"n", "o">>, <<"N">>, <<"3">>, <<"m", "a", "y", "b", "e">>, <<>>}

\* What the operator may type at "Tell Cody what to do:"
Instructions == {<<"u", "s", "e", " ", "l", "s">>, <<" ", "i", "t", " ", "c", "o", "m", "p", "l", "e", "t", "e", "d", " ">>, <<>>}

\* lines 112-130: "yes", "no", "instruct" or "again"
Choice(answer) ==
    LET choice == trim(answer)
    IN  IF choice = <<"1">> \/ toLowerCase(choice) = <<"y", "e", "s">> \/ toLowerCase(choice) = <<"y">>
        THEN "yes"
        ELSE IF choice = <<"2">> \/ toLowerCase(choice) = <<"n", "o">>
                \/ toLowerCase(choice) = <<"n">>
        THEN "no"
        ELSE IF choice = <<"3">> THEN "instruct"
        ELSE "again"

\* askChoice: the operator answers the choice prompt (lines 110-131)
AskChoice ==
    /\ pc = "askChoice"
    /\ \E answer \in Answers :
        LET c == Choice(answer)
        IN  CASE c \in {"yes", "no"} -> runCommand_resume(c, <<>>)
              [] c = "instruct" ->
                    /\ pc' = "askInstruction"
                    /\ UNCHANGED gateVars
              [] OTHER ->
                    /\ pc' = "askChoice"
                    /\ UNCHANGED gateVars
    /\ UNCHANGED <<runtimeSettings, loopVars, lastCompact, sideVars>>

\* the operator answers "Tell Cody what to do:" (lines 123-126)
AskInstruction ==
    /\ pc = "askInstruction"
    /\ \E instruction \in Instructions :
        runCommand_resume("instruct", trim(instruction))
    /\ UNCHANGED <<runtimeSettings, loopVars, lastCompact, sideVars>>


(***************************************************************************)
(* run_command called directly, with or without an approval callback.      *)
(***************************************************************************)
GateCommands ==
    { <<"l", "s", " ", "-", "l", "a">>, <<"r", "m", " ", "-", "r", "f", " ", "/", "t", "m", "p", "/", "x">>, <<"r", "m", " ", " ", "-", "r", " ", "d", "i", "r">>, <<"r", "m", " ", "-", "f", " ", "a">>, <<"r", "m", " ", "-", "f", "r", " ", "a">>,
      <<"f", "a", "r", "m", " ", "-", "r", "f">>, <<"r", "m", "d", "i", "r", " ", "d">>, <<"s", "u", "d", "o", " ", "l", "s">>, <<"s", "u", "d", "o", " ", "e", "c", "h", "o", " ", "c", "o", "m", "p", "l", "e", "t", "e", "d">>,
      <<"e", "c", "h", "o", " ", "e", "x", "e", "c", "u", "t", "e", "d">>, <<"s", "h", "u", "t", "d", "o", "w", "n", " ", "n", "o", "w">>, <<"r", "e", "b", "o", "o", "t">>, <<"k", "i", "l", "l", " ", "-", "9", " ", "1">>,
      <<"k", "i", "l", "l", "a", "l", "l", " ", "n", "o", "d", "e">>, <<"d", "d", " ", "i", "f", "=", "a">>, <<"e", "c", "h", "o", " ", "a", "d", "d">>, <<"m", "k", "f", "s", " ", "/", "d", "e", "v", "/", "x">>,
      <<"c", "u", "r", "l", " ", "u", " ", "|", " ", "s", "h">>, <<"w", "g", "e", "t", " ", "u", " ", "|", "b", "a", "s", "h">>, <<"c", "u", "r", "l", " ", "u", "\n", "|", " ", "s", "h">>,
      <<"g", "i", "t", " ", "p", "u", "s", "h", " ", "o", "r", "i", "g", "i", "n", " ", "-", "-", "f", "o", "r", "c", "e">>, <<"g", "i", "t", " ", "p", "u", "s", "h">>, <<"g", "i", "t", " ", "r", "e", "s", "e", "t", " ", "-", "-", "h", "a", "r", "d">>, <<>> }

GateArguments ==
    {JsObject(Put(EmptyMap, <<"c", "o", "m", "m", "a", "n", "d">>, JsString(c))) : c \in GateCommands}
    \cup {JsObject(Put(EmptyMap, <<"c", "o", "m", "m", "a", "n", "d">>, JsNumber(<<"4", "2">>))), JsObject(EmptyMap)}

\* The embedding program sets or clears runtimeSettings.approvalCallback.
GateConfigure ==
    /\ pc = "idle"
    /\ \E cb \in BOOLEAN :
        /\ cb # runtimeSettings.approvalCallback
        /\ runtimeSettings' = [runtimeSettings EXCEPT !.approvalCallback = cb]
    /\ UNCHANGED <<pc, gateVars, loopVars, lastCompact, sideVars>>

GateInvoke ==
    /\ pc = "idle"
    /\ \E args \in GateArguments : runCommand_execute(args)
    /\ UNCHANGED <<runtimeSettings, loopVars, lastCompact, sideVars>>

\* execute has returned its ToolResult to the caller; its frame is gone.
GateReturn ==
    /\ pc = "toolDone"
    /\ pc' = "idle"
    /\ command' = JsUndefined
    /\ blocked' = 0
    /\ result' = NoResult
    /\ inv' = [NoInvocation EXCEPT !.approvedEarlier =
                   IF inv.response = "yes" THEN command ELSE inv.approvedEarlier]
    /\ UNCHANGED <<runtimeSettings, loopVars, lastCompact, sideVars>>

InitSettings ==
    [showThinking |-> TRUE, debug |-> FALSE, bossMode |-> FALSE,
     bossInterrupted |-> FALSE, approvalCallback |-> FALSE]

NoRun == [kind |-> "none", value |-> <<>>]

InitLoop ==
    /\ messages = <<>>
    /\ options = [bossMode |-> FALSE]
    /\ iterationCount = 0
    /\ toolCalls = <<>>
    /\ idx = 0
    /\ toolResults = <<>>
    /\ response = "none"
    /\ requests = 0
    /\ allToolCalls = FALSE
    /\ runStart = <<>>
    /\ ret = NoRun

\* no compact call yet, or another store operation since the last one
NoCompact == [outcome |-> "none", before |-> <<>>, requested |-> FALSE,
              caller |-> "", answer |-> "none", afterReplaced |-> FALSE]

NoOutput == [kind |-> "none"]

\* startBossMode not entered; stdin as the process found it
NoBoss(isTTY, isRaw) ==
    [cycle |-> 0, listening |-> FALSE, isTTY |-> isTTY, isRaw |-> isRaw,
     wasRaw |-> FALSE, exit |-> "none", needs |-> "none", count |-> 0, compacted |-> 0,
     escAt |-> "none", escCycle |-> 0]

InitAux ==
    /\ lastCompact = NoCompact
    /\ arg = <<>>
    /\ out = NoOutput
    /\ boss = NoBoss(FALSE, FALSE)

InitTool ==
    /\ command = JsUndefined
    /\ blocked = 0
    /\ result = NoResult
    /\ inv = NoInvocation

InitGate ==
    /\ pc = "idle"
    /\ runtimeSettings = InitSettings
    /\ InitLoop
    /\ InitTool
    /\ InitAux

NextGate == GateConfigure \/ GateInvoke \/ GateReturn \/ AskChoice \/ AskInstruction \/ ExecDone

SpecGate == InitGate /\ [][NextGate]_vars


(***************************************************************************)
(* tools/readFile.ts, tools/writeFile.ts, tools/index.ts                   *)
(***************************************************************************)
\* decimal digits of a natural number
RECURSIVE NatToChars(_)
NatToChars(n) ==
    IF n < 10 THEN <<DigitSeq[n + 1]>>
    ELSE NatToChars(n \div 10) \o <<DigitSeq[(n % 10) + 1]>>

\* What the file system can answer a tool: for a path that is a string, a
\* file with content, a directory, or an error; a path that is not a string
\* makes the first file-system call throw.
FsOutcomes(path) ==
    IF path.t = "string"
    THEN {[kind |-> "file", text |-> <<"p", "r", "i", "n", "t", "(", "1", ")", "\n">>],
          [kind |-> "directory", text |-> <<>>],
          [kind |-> "error", text |-> <<"E", "N", "O", "E", "N", "T", ":", " ", "n", "o", " ", "s", "u", "c", "h", " ", "f", "i", "l", "e", " ", "o", "r", " ", "d", "i", "r", "e", "c", "t", "o", "r", "y">>]}
    ELSE {[kind |-> "error", text |-> <<"T", "h", "e", " ", "\"", "p", "a", "t", "h", "\"", " ", "a", "r", "g", "u", "m", "e", "n", "t", " ", "m", "u", "s", "t", " ", "b", "e", " ", "o", "f", " ", "t", "y", "p", "e", " ", "s", "t", "r", "i", "n", "g">>]}

\* readFileTool.execute
readFile_execute(args, o) ==
    LET path == Prop(args, <<"p", "a", "t", "h">>)
    IN  CASE o.kind = "directory" ->
                [success |-> FALSE, silent |-> FALSE,
                 output |-> <<"E", "r", "r", "o", "r", ":", " ", "\"">> \o StringOf(path)
                    \o <<"\"", " ", "i", "s", " ", "a", " ", "d", "i", "r", "e", "c", "t", "o", "r", "y", ",", " ", "n", "o", "t", " ", "a", " ", "f", "i", "l", "e", ".", " ", "U", "s", "e", " ", "l", "i", "s", "t", "_", "d", "i", "r", "e", "c", "t", "o", "r", "y", " ", "t", "o", " ", "s", "e", "e", " ", "i", "t", "s", " ", "c", "o", "n", "t", "e", "n", "t", "s", ".">>]
          [] o.kind = "file" ->
                [success |-> TRUE, silent |-> FALSE, output |-> o.text]
          [] OTHER ->
                [success |-> FALSE, silent |-> FALSE,
                 output |-> <<"F", "a", "i", "l", "e", "d", " ", "t", "o", " ", "r", "e", "a", "d", " ", "f", "i", "l", "e", ":", " ">> \o o.text]

\* writeFileTool.execute (content is a string whenever the write succeeds)
writeFile_execute(args, o) ==
    LET path == Prop(args, <<"p", "a", "t", "h">>)
        content == Prop(args, <<"c", "o", "n", "t", "e", "n", "t">>)
    IN  IF o.kind = "error" \/ content.t # "string"
        THEN [success |-> FALSE, silent |-> FALSE,
              output |-> <<"F", "a", "i", "l", "e", "d", " ", "t", "o", " ", "w", "r", "i", "t", "e", " ", "f", "i", "l", "e", ":", " ">> \o o.text]
        ELSE [success |-> TRUE, silent |-> FALSE,
              output |-> <<"S", "u", "c", "c", "e", "s", "s", "f", "u", "l", "l", "y", " ", "w", "r", "o", "t", "e", " ">> \o NatToChars(Len(content.v))
                         \o <<" ", "c", "h", "a", "r", "a", "c", "t", "e", "r", "s", " ", "t", "o", " ">> \o StringOf(path)]

\* the list_directory tool: a listing or a failure text
listDirectory_execute(args, o) ==
    IF o.kind = "error"
    THEN [success |-> FALSE, silent |-> FALSE,
          output |-> <<"F", "a", "i", "l", "e", "d", " ", "t", "o", " ", "l", "i", "s", "t", " ", "d", "i", "r", "e", "c", "t", "o", "r", "y", ":", " ">> \o o.text]
    ELSE [success |-> TRUE, silent |-> FALSE, output |-> <<"h", "e", "l", "l", "o", ".", "p", "y", "\n">>]

\* the registration table of tools/index.ts
ToolNames == {"read_file", "write_file", "list_directory", "run_command"}

\* an unknown name is answered with a failure, not raised
UnknownToolResult(name) ==
    [success |-> FALSE, silent |-> FALSE, output |-> <<"U", "n", "k", "n", "o", "w", "n", " ", "t", "o", "o", "l", ":", " ">> \o <<name>>]

\* executeTool(name, args) up to its first suspension or its return
executeTool(name, args) ==
    IF name = "run_command" THEN runCommand_execute(args)
    ELSE /\ command' = JsUndefined
         /\ blocked' = 0
         /\ inv' = NoInvocation
         /\ IF name \in ToolNames
            THEN pc' = "awaitTool" /\ result' = NoResult
            ELSE pc' = "toolDone" /\ result' = UnknownToolResult(name)

\* truncateOutput(output, maxLength) of tools/validation.ts: text over the
\* budget is cut to the budget and a notice is appended
OutputBudget == 5000
truncateOutput(output, maxLength) ==
    IF Len(output) <= maxLength THEN output
    ELSE SubSeq(output, 1, maxLength) \o <<"\n", ".", ".", ".", " ", "(", "o", "u", "t", "p", "u", "t", " ", "t", "r", "u", "n", "c", "a", "t", "e", "d", ")">>

(***************************************************************************)
(* agent/loop.ts: runAgentLoop                                             *)
(***************************************************************************)
\* A loop test that admits one iteration more.
LoopContinues_OffByOne(count, bossMode) == bossMode \/ count <= AttendedMaxIterations

\* lines 191 and 205: the loop test (no cap in boss mode)
LoopContinues(count, bossMode) == bossMode \/ count < AttendedMaxIterations

Running == [kind |-> "running", value |-> <<>>]

\* runAgentLoop returns value to main (index.ts lines 339-348) or to
\* startBossMode (index.ts lines 179-181)
ReturnFromRun(value) ==
    /\ pc' = IF options.bossMode THEN "bossAfterRun" ELSE "prompt"
    /\ ret' = [kind |-> "returned", value |-> value]

\* A controller that tests for compaction after a thrown cycle as well.
ThrowFromRun_ThenCompact ==
    /\ pc' = IF options.bossMode THEN "bossAfterRun" ELSE "prompt"
    /\ ret' = [kind |-> "threw", value |-> <<>>]

\* A session that ends with the first error of a run.
ThrowFromRun_Exit ==
    /\ pc' = IF options.bossMode THEN "bossCheck" ELSE "exited"
    /\ ret' = [kind |-> "threw", value |-> <<>>]

\* runAgentLoop throws into the catch of main (index.ts lines 349-370) or
\* of startBossMode (index.ts lines 188-191)
ThrowFromRun ==
    /\ pc' = IF options.bossMode THEN "bossCheck" ELSE "prompt"
    /\ ret' = [kind |-> "threw", value |-> <<>>]

\* A safety exit that only knows the fixed notice.
SafetyExitValue_NoticeOnly(msgs) == <<"(", "a", "g", "e", "n", "t", " ", "s", "t", "o", "p", "p", "e", "d", " ", "-", " ", "t", "o", "o", " ", "m", "a", "n", "y", " ", "i", "t", "e", "r", "a", "t", "i", "o", "n", "s", ")">>

\* lines 411-420
SafetyExitValue(msgs) ==
    LET lastMessage == msgs[Len(msgs)]
    IN  IF "content" \in DOMAIN lastMessage /\ lastMessage.content.t = "string"
        THEN processThinkingTags(lastMessage.content.v, runtimeSettings.showThinking)
        ELSE <<"(", "a", "g", "e", "n", "t", " ", "s", "t", "o", "p", "p", "e", "d", " ", "-", " ", "t", "o", "o", " ", "m", "a", "n", "y", " ", "i", "t", "e", "r", "a", "t", "i", "o", "n", "s", ")">>

\* Line 205 with the store msgs, count iterations done and reqs requests sent:
\* the next request (lines 206-228) or the safety exit (lines 409-420).
LoopHead(msgs, count, reqs, bossMode) ==
    /\ messages' = msgs
    /\ IF LoopContinues(count, bossMode)
       THEN /\ iterationCount' = count + 1
            /\ requests' = reqs + 1
            /\ pc' = "awaitCompletion"
            /\ ret' = Running
       ELSE /\ iterationCount' = count
            /\ requests' = reqs
            /\ ReturnFromRun(SafetyExitValue(msgs))

\* A for loop that goes straight to the last request of the turn.
NextFunctionCall_LastOnly(tc, i) == IF i > Len(tc) THEN i ELSE Len(tc)

\* A for loop that skips nothing.
NextFunctionCall_NoSkip(tc, i) == i

\* lines 306-310: the first function-type call of tc at position i or later
RECURSIVE NextFunctionCall(_, _)
NextFunctionCall(tc, i) ==
    IF i > Len(tc) THEN i
    ELSE IF tc[i].type # "function" THEN NextFunctionCall(tc, i + 1)
    ELSE i

\* The for loop of lines 306-366 from position i on, tr being toolResults:
\* up to the next executeTool, or through line 379 to the loop head.
Dispatch(tc, i, tr, msgs, count, reqs) ==
    LET j == NextFunctionCall(tc, i)
    IN  IF j > Len(tc)
        THEN /\ toolCalls' = <<>>
             /\ idx' = 0
             /\ toolResults' = <<>>
             /\ command' = JsUndefined
             /\ blocked' = 0
             /\ result' = NoResult
             /\ inv' = NoInvocation
             /\ LoopHead(addToolResults(msgs, tr), count, reqs, options.bossMode)
        ELSE /\ toolCalls' = tc
             /\ idx' = j
             /\ toolResults' = tr
             /\ messages' = msgs
             /\ iterationCount' = count
             /\ requests' = reqs
             /\ ret' = ret
             /\ \E toolArgs \in {parseToolArguments(tc[j].function.arguments)} :
                    executeTool(tc[j].function.name, toolArgs)

\* lines 279-291
FinalText(message) ==
    processThinkingTags(IF message.content.t = "string" /\ message.content.v # <<>>
                        THEN message.content.v
                        ELSE <<"(", "n", "o", " ", "r", "e", "s", "p", "o", "n", "s", "e", ")">>,
                        runtimeSettings.showThinking)

\* A test that takes only an absent list for the end of the run.
NoToolCalls_AbsentOnly(message) ==
    message.tool_calls.t \in {"undefined", "null"}

\* line 279: !toolCalls || toolCalls.length === 0
NoToolCalls(message) ==
    message.tool_calls.t \in {"undefined", "null"} \/ message.tool_calls.v = <<>>

\* A shape check that only looks for a missing response.
IsMalformed_MissingOnly(r) == r.kind = "null"

\* lines 242-254: the shape checks on the response
IsMalformed(r) ==
    r.kind \in {"null", "no choices", "choices not an array", "empty choices",
                "choice without message"}

\* The completion request is answered (lines 222-310).
LLMRespond ==
    /\ pc = "awaitCompletion"
    /\ \E r \in (IF options.bossMode \/ boss.exit = "returned"
                THEN BossResponses(iterationCount, boss.cycle)
                ELSE Responses(iterationCount)) :
        /\ response' = r.kind
        /\ IF r.kind = "rejected" \/ IsMalformed(r)
           THEN /\ ThrowFromRun
                /\ allToolCalls' = FALSE
                /\ UNCHANGED <<messages, iterationCount, toolCalls, idx, toolResults,
                               requests, gateVars>>
           ELSE LET msgs == addAssistantMessage(messages, r.message)
                IN  IF NoToolCalls(r.message)
                    THEN /\ messages' = msgs
                         /\ ReturnFromRun(FinalText(r.message))
                         /\ allToolCalls' = FALSE
                         /\ UNCHANGED <<iterationCount, toolCalls, idx, toolResults,
                                        requests, gateVars>>
                    ELSE /\ allToolCalls' = allToolCalls
                         /\ Dispatch(r.message.tool_calls.v, 1, <<>>, msgs,
                                     iterationCount, requests)
    /\ UNCHANGED <<runtimeSettings, options, runStart, lastCompact, sideVars>>

\* A file tool finishes (executeTool returns to line 337).
FsDone ==
    /\ pc = "awaitTool"
    /\ \E args \in {parseToolArguments(toolCalls[idx].function.arguments)} :
        \E o \in FsOutcomes(Prop(args, <<"p", "a", "t", "h">>)) :
            LET name == toolCalls[idx].function.name
            IN  result' = CASE name = "read_file" -> readFile_execute(args, o)
                            [] name = "write_file" -> writeFile_execute(args, o)
                            [] OTHER -> listDirectory_execute(args, o)
    /\ pc' = "toolDone"
    /\ UNCHANGED <<runtimeSettings, loopVars, lastCompact, sideVars, command, blocked, inv>>

\* lines 339-379: the result of executeTool becomes a tool message, and the
\* for loop goes on.
ToolDone ==
    /\ pc = "toolDone"
    /\ Dispatch(toolCalls, idx + 1,
                Append(toolResults,
                       ToolMessage(toolCalls[idx].id,
                                   truncateOutput(result.output, OutputBudget))),
                messages, iterationCount, requests)
    /\ UNCHANGED <<runtimeSettings, options, response, allToolCalls, runStart, lastCompact,
                   sideVars>>

(***************************************************************************)
(* index.ts: main                                                          *)
(***************************************************************************)
\* lines 232-272 (no --boss flag)
MainStart ==
    /\ pc = "start"
    /\ messages' = reset
    /\ runtimeSettings' = [runtimeSettings EXCEPT !.approvalCallback = TRUE]
    /\ pc' = "prompt"
    /\ lastCompact' = NoCompact
    /\ UNCHANGED <<runVars, gateVars, sideVars>>

\* what the operator types at the prompt of an attended session
OperatorInputs ==
    { <<"e", "x", "i", "t">>, <<" ", "/", "S", "h", "o", "w", "-", "T", "h", "i", "n", "k", "i", "n", "g">>, <<"/", "d", "e", "b", "u", "g">>, <<"/", "n", "e", "w">>, <<"/", "h", "e", "l", "p">>, <<"/", "f", "r", "o", "b", "n", "i", "c", "a", "t", "e">>,
      <<" ", " ">>, <<"l", "i", "s", "t", " ", "t", "h", "e", " ", "f", "i", "l", "e", "s">> }

\* lines 165-228 of agent/loop.ts: the call of runAgentLoop up to its first request
runAgentLoop(userMessage, opts) ==
    /\ options' = opts
    /\ runStart' = messages
    /\ allToolCalls' = TRUE
    /\ LoopHead(addUserMessage(messages, userMessage), 0, 0, opts.bossMode)
    /\ response' = "none"
    /\ lastCompact' = NoCompact
    /\ UNCHANGED <<toolCalls, idx, toolResults, gateVars, arg, out>>

\* lines 275-339: one turn of the input loop
MainPrompt ==
    /\ pc = "prompt"
    /\ \E userInput \in OperatorInputs :
        LET input == toLowerCase(trim(userInput))
        IN  CASE input = <<"e", "x", "i", "t">> ->
                    /\ pc' = "exited"
                    /\ UNCHANGED <<runtimeSettings, loopVars, gateVars, lastCompact, sideVars>>
              [] input = <<"/", "s", "h", "o", "w", "-", "t", "h", "i", "n", "k", "i", "n", "g">> ->
                    /\ runtimeSettings' = [runtimeSettings EXCEPT
                                              !.showThinking = ~runtimeSettings.showThinking]
                    /\ UNCHANGED <<pc, loopVars, gateVars, lastCompact, sideVars>>
              [] input = <<"/", "d", "e", "b", "u", "g">> ->
                    /\ runtimeSettings' = [runtimeSettings EXCEPT
                                              !.debug = ~runtimeSettings.debug]
                    /\ UNCHANGED <<pc, loopVars, gateVars, lastCompact, sideVars>>
              [] input = <<"/", "n", "e", "w">> ->
                    /\ messages' = reset
                    /\ lastCompact' = NoCompact
                    /\ UNCHANGED <<pc, runtimeSettings, runVars, gateVars, sideVars>>
              [] input = <<"/", "h", "e", "l", "p">> ->
                    UNCHANGED vars
              [] input # <<>> /\ input[1] = "/" ->
                    UNCHANGED vars
              [] trim(userInput) = <<>> ->
                    UNCHANGED vars
              [] OTHER ->
                    /\ Len(messages) <= MaxStartLen
                    /\ runAgentLoop(userInput, [bossMode |-> FALSE])
                    /\ UNCHANGED <<runtimeSettings, boss>>

Init ==
    /\ pc = "start"
    /\ runtimeSettings = InitSettings
    /\ InitLoop
    /\ InitTool
    /\ InitAux

Next ==
    \/ MainStart
    \/ MainPrompt
    \/ LLMRespond
    \/ FsDone
    \/ AskChoice
    \/ AskInstruction
    \/ ExecDone
    \/ ToolDone

Spec == Init /\ [][Next]_vars


(***************************************************************************)
(* agent/conversation.ts: getMessageCount and compact                      *)
(***************************************************************************)
\* lines 160-162
getMessageCount(msgs) == Len(msgs) - 1

\* A guard that lets a store with one non-system message through.
NothingToCompact_OffByOne(msgs) == Len(msgs) <= 1

\* line 83
COMPACTION_THRESHOLD == 30

\* lines 167-169
needsCompaction(msgs) == Len(msgs) > COMPACTION_THRESHOLD

\* lines 176-178
NothingToCompact(msgs) == Len(msgs) <= 2

\* A replacement that keeps the summary only.
CompactedStore_NoSystem(msgs, summary) ==
    <<UserMessage(<<"[", "C", "O", "N", "T", "E", "X", "T", " ", "F", "R", "O", "M", " ", "P", "R", "E", "V", "I", "O", "U", "S", " ", "W", "O", "R", "K", "]", "\n">> \o summary
                  \o <<"\n", "\n", "[", "C", "o", "n", "t", "i", "n", "u", "e", " ", "f", "r", "o", "m", " ", "h", "e", "r", "e", "]">>)>>

\* A replacement that appends the summary to the history.
CompactedStore_Appended(msgs, summary) ==
    Append(msgs, UserMessage(<<"[", "C", "O", "N", "T", "E", "X", "T", " ", "F", "R", "O", "M", " ", "P", "R", "E", "V", "I", "O", "U", "S", " ", "W", "O", "R", "K", "]", "\n">> \o summary
                             \o <<"\n", "\n", "[", "C", "o", "n", "t", "i", "n", "u", "e", " ", "f", "r", "o", "m", " ", "h", "e", "r", "e", "]">>))

\* lines 211-219
CompactedStore(msgs, summary) ==
    <<msgs[1],
      UserMessage(<<"[", "C", "O", "N", "T", "E", "X", "T", " ", "F", "R", "O", "M", " ", "P", "R", "E", "V", "I", "O", "U", "S", " ", "W", "O", "R", "K", "]", "\n">> \o summary
                  \o <<"\n", "\n", "[", "C", "o", "n", "t", "i", "n", "u", "e", " ", "f", "r", "o", "m", " ", "h", "e", "r", "e", "]">>)>>

\* What the endpoint can answer the summarization request with: a summary
\* text, a response without text, a response that is no object, or a failure.
SummaryResponses ==
    {[kind |-> "text", text |-> <<"D", "i", "d", " ", "A", ".", " ", "N", "e", "x", "t", ":", " ", "B", ".">>],
     [kind |-> "text", text |-> <<"o", "k">>],
     [kind |-> "empty content", text |-> <<>>],
     [kind |-> "null content", text |-> <<>>],
     [kind |-> "no choices", text |-> <<>>],
     [kind |-> "empty choices", text |-> <<>>],
     [kind |-> "choice without message", text |-> <<>>],
     [kind |-> "null", text |-> <<>>],
     [kind |-> "rejected", text |-> <<>>]}

\* compact(client, model) called at pc = caller, up to its return or its
\* request (lines 175-200)
compact(caller) ==
    /\ messages' = messages
    /\ IF NothingToCompact(messages)
       THEN /\ pc' = caller
            /\ lastCompact' = [outcome |-> "noop", before |-> messages,
                               requested |-> FALSE, caller |-> caller, answer |-> "none",
                               afterReplaced |-> lastCompact.outcome = "replaced"]
       ELSE /\ pc' = "awaitSummary"
            /\ lastCompact' = [outcome |-> "pending", before |-> messages,
                               requested |-> TRUE, caller |-> caller, answer |-> "none",
                               afterReplaced |-> lastCompact.outcome = "replaced"]

\* A test that only takes a missing summary for no summary.
NoSummary_UndefinedOnly(r) ==
    r.kind \in {"no choices", "empty choices", "choice without message"}

\* lines 202-203: response.choices?.[0]?.message?.content is falsy
NoSummary(r) == r.kind # "text" \/ r.text = <<>>

\* The summarization request is answered (lines 202-222); a rejected request
\* and response.choices of a null response throw to the caller.
CompactRespond ==
    /\ pc = "awaitSummary"
    /\ \E r \in SummaryResponses :
        CASE r.kind \in {"null", "rejected"} ->
                /\ messages' = messages
                /\ lastCompact' = [lastCompact EXCEPT !.outcome = "threw", !.answer = r.kind]
          [] r.kind \notin {"null", "rejected"} /\ NoSummary(r) ->
                /\ messages' = messages
                /\ lastCompact' = [lastCompact EXCEPT !.outcome = "kept", !.answer = r.kind]
          [] OTHER ->
                /\ messages' = CompactedStore(messages, r.text)
                /\ lastCompact' = [lastCompact EXCEPT !.outcome = "replaced", !.answer = r.kind]
    /\ pc' = lastCompact.caller
    /\ UNCHANGED <<runtimeSettings, runVars, gateVars, sideVars>>

(***************************************************************************)
(* The store used on its own: any sequence of its operations.              *)
(***************************************************************************)
\* the operations append only while the store holds fewer messages than this
MaxStoreLen == 4

StoreUserTexts == {<<"h", "i">>}
StoreAssistantMessages ==
    {LateFinal, AssistantMessage(JsNull, JsArray(PlainToolCalls))}
StoreToolResults ==
    {<<>>,
     <<ToolMessage("call_1", <<"U", "n", "k", "n", "o", "w", "n", " ", "t", "o", "o", "l", ":", " ", "s", "e", "a", "r", "c", "h", "_", "w", "e", "b">>)>>,
     <<ToolMessage("call_1", <<"a">>), ToolMessage("call_2", <<"b">>)>>}

StoreFrame ==
    UNCHANGED <<pc, runtimeSettings, runVars, gateVars, sideVars>>

StoreReset ==
    /\ pc = "store"
    /\ messages' = reset
    /\ lastCompact' = NoCompact
    /\ StoreFrame

StoreAddUser ==
    /\ pc = "store"
    /\ Len(messages) < MaxStoreLen
    /\ \E text \in StoreUserTexts : messages' = addUserMessage(messages, text)
    /\ lastCompact' = NoCompact
    /\ StoreFrame

StoreAddAssistant ==
    /\ pc = "store"
    /\ Len(messages) < MaxStoreLen
    /\ \E m \in StoreAssistantMessages : messages' = addAssistantMessage(messages, m)
    /\ lastCompact' = NoCompact
    /\ StoreFrame

StoreAddToolResults ==
    /\ pc = "store"
    /\ \E results \in StoreToolResults :
        /\ Len(messages) + Len(results) <= MaxStoreLen
        /\ messages' = addToolResults(messages, results)
    /\ lastCompact' = NoCompact
    /\ StoreFrame

StoreCompact ==
    /\ pc = "store"
    /\ compact("store")
    /\ UNCHANGED <<runtimeSettings, runVars, gateVars, sideVars>>

\* the state after new Conversation() (lines 117-119)
InitStore ==
    /\ pc = "store"
    /\ runtimeSettings = InitSettings
    /\ messages = reset
    /\ options = [bossMode |-> FALSE]
    /\ iterationCount = 0
    /\ toolCalls = <<>>
    /\ idx = 0
    /\ toolResults = <<>>
    /\ response = "none"
    /\ requests = 0
    /\ allToolCalls = FALSE
    /\ runStart = <<>>
    /\ ret = NoRun
    /\ InitTool
    /\ InitAux

NextStore ==
    \/ StoreReset
    \/ StoreAddUser
    \/ StoreAddAssistant
    \/ StoreAddToolResults
    \/ StoreCompact
    \/ CompactRespond

SpecStore == InitStore /\ [][NextStore]_vars

(***************************************************************************)
(* A session on one store: runAgentLoop calls, and between them resets and *)
(* compactions of the store (as the prompt loop and the autonomous         *)
(* controller make them).  No approval callback is configured.             *)
(***************************************************************************)
SessionRun ==
    /\ pc = "prompt"
    /\ Len(messages) <= MaxStartLen
    /\ \E userMessage \in StoreUserTexts : runAgentLoop(userMessage, [bossMode |-> FALSE])
    /\ UNCHANGED <<runtimeSettings, boss>>

SessionReset ==
    /\ pc = "prompt"
    /\ messages' = reset
    /\ lastCompact' = NoCompact
    /\ StoreFrame

SessionCompact ==
    /\ pc = "prompt"
    /\ compact("prompt")
    /\ UNCHANGED <<runtimeSettings, runVars, gateVars, sideVars>>

InitSession ==
    /\ pc = "prompt"
    /\ runtimeSettings = InitSettings
    /\ messages = reset
    /\ options = [bossMode |-> FALSE]
    /\ iterationCount = 0
    /\ toolCalls = <<>>
    /\ idx = 0
    /\ toolResults = <<>>
    /\ response = "none"
    /\ requests = 0
    /\ allToolCalls = FALSE
    /\ runStart = <<>>
    /\ ret = NoRun
    /\ InitTool
    /\ InitAux

NextSession ==
    \/ SessionRun
    \/ SessionReset
    \/ SessionCompact
    \/ CompactRespond
    \/ LLMRespond
    \/ FsDone
    \/ ExecDone
    \/ ToolDone

SpecSession == InitSession /\ [][NextSession]_vars

(***************************************************************************)
(* index.ts: startBossMode                                                 *)
(***************************************************************************)
\* boss.ts lines 8-12, as one text
BOSS_CONTINUATION_PROMPT ==
    <<"You are in autonomous boss mode. Decide what to work on next: ...">>

\* A controller that never advances its cycle counter.
BossCycle_Recount(b) ==
    /\ boss' = [b EXCEPT !.cycle = 1]
    /\ runAgentLoop(BOSS_CONTINUATION_PROMPT, [bossMode |-> TRUE])

\* lines 173-179: the while test has passed; the cycle is counted and
\* runAgentLoop is called, up to its first request. b is the controller's
\* state at that point.
BossCycle(b) ==
    /\ b.cycle < MaxCycles
    /\ boss' = [b EXCEPT !.cycle = @ + 1]
    /\ runAgentLoop(BOSS_CONTINUATION_PROMPT, [bossMode |-> TRUE])

\* lines 141-179: entry, the ESC listener, and the first cycle
startBossMode ==
    /\ pc = "prompt"
    /\ boss.exit = "none"
    /\ boss.cycle = 0
    /\ runtimeSettings' = [runtimeSettings EXCEPT !.bossMode = TRUE,
                                                  !.bossInterrupted = FALSE]
    /\ BossCycle([boss EXCEPT !.wasRaw = boss.isRaw,
                              !.isRaw = IF boss.isTTY THEN TRUE ELSE @,
                              !.listening = TRUE])

\* lines 141-155 when process.stdin.setRawMode(true) raises: the exception
\* leaves startBossMode before its try statement, and main with it
BossSetupRaise ==
    /\ pc = "prompt"
    /\ boss.exit = "none"
    /\ boss.cycle = 0
    /\ boss.isTTY
    /\ runtimeSettings' = [runtimeSettings EXCEPT !.bossMode = TRUE,
                                                  !.bossInterrupted = FALSE]
    /\ boss' = [boss EXCEPT !.wasRaw = boss.isRaw, !.exit = "threw"]
    /\ pc' = "crashed"
    /\ UNCHANGED <<loopVars, gateVars, lastCompact, arg, out>>

\* lines 159-164: onKeypress receives ESC.  The place and the cycle of the
\* first ESC are kept for the properties.
PressEsc ==
    /\ boss.listening
    /\ runtimeSettings' = [runtimeSettings EXCEPT !.bossInterrupted = TRUE]
    /\ boss' = IF boss.escAt = "none"
               THEN [boss EXCEPT !.escAt = pc, !.escCycle = boss.cycle]
               ELSE boss
    /\ UNCHANGED <<pc, loopVars, gateVars, lastCompact, arg, out>>

\* lines 180-187: runAgentLoop has returned; the store is compacted when
\* needsCompaction() says so
BossAfterRun ==
    /\ pc = "bossAfterRun"
    /\ IF needsCompaction(messages)
       THEN /\ boss' = [boss EXCEPT !.needs = "yes",
                                    !.count = getMessageCount(messages),
                                    !.compacted = boss.cycle]
            /\ compact("bossCheck")
       ELSE /\ boss' = [boss EXCEPT !.needs = "no",
                                    !.count = getMessageCount(messages)]
            /\ pc' = "bossCheck"
            /\ UNCHANGED <<messages, lastCompact>>
    /\ UNCHANGED <<runtimeSettings, runVars, gateVars, arg, out>>

\* lines 201-213: the finally block.  An exception goes on to main, which
\* awaits startBossMode outside its try statement (lines 271, 315): main's
\* promise is rejected and the session is over.
BossFinally(how) ==
    /\ runtimeSettings' = [runtimeSettings EXCEPT !.bossMode = FALSE,
                                                  !.bossInterrupted = FALSE]
    /\ boss' = [boss EXCEPT !.listening = FALSE,
                            !.isRaw = IF boss.isTTY THEN boss.wasRaw ELSE @,
                            !.exit = how]
    /\ pc' = IF how = "threw" THEN "crashed" ELSE "prompt"
    /\ UNCHANGED <<loopVars, gateVars, lastCompact, arg, out>>

\* A controller that reads the interrupt flag at its entry only.
BossCheck_Deaf ==
    /\ pc = "bossCheck"
    /\ BossCycle(boss)
    /\ UNCHANGED runtimeSettings

\* lines 188-200 and 173: after the cycle the interrupt flag is read; the
\* loop is left through the finally block or the next cycle begins
BossCheck ==
    /\ pc = "bossCheck"
    /\ IF runtimeSettings.bossInterrupted
       THEN BossFinally("returned")
       ELSE /\ BossCycle(boss)
            /\ UNCHANGED runtimeSettings

\* lines 174-176 or 189-190 when console output raises: the exception leaves
\* the loop through the finally block
BossLoopRaise ==
    /\ pc = "bossCheck"
    /\ BossFinally("threw")

\* a store of n messages left by attended exchanges
RECURSIVE FilledStore(_)
FilledStore(n) ==
    IF n <= 1 THEN reset
    ELSE Append(FilledStore(n - 1),
                IF n % 2 = 0 THEN UserMessage(<<"h", "i">>) ELSE LateFinal)

\* /boss is typed at the prompt of a session whose store is fresh or close
\* to the compaction threshold
InitBoss ==
    /\ pc = "prompt"
    /\ runtimeSettings = [InitSettings EXCEPT !.approvalCallback = TRUE]
    /\ messages \in {FilledStore(n) :
                        n \in {1, COMPACTION_THRESHOLD - 1}}
    /\ options = [bossMode |-> FALSE]
    /\ iterationCount = 0
    /\ toolCalls = <<>>
    /\ idx = 0
    /\ toolResults = <<>>
    /\ response = "none"
    /\ requests = 0
    /\ allToolCalls = FALSE
    /\ runStart = <<>>
    /\ ret = NoRun
    /\ InitTool
    /\ lastCompact = NoCompact
    /\ arg = <<>>
    /\ out = NoOutput
    /\ boss \in {NoBoss(FALSE, FALSE), NoBoss(TRUE, FALSE), NoBoss(TRUE, TRUE)}

NextBoss ==
    \/ startBossMode
    \/ PressEsc
    \/ LLMRespond
    \/ AskChoice
    \/ AskInstruction
    \/ ExecDone
    \/ ToolDone
    \/ BossAfterRun
    \/ CompactRespond
    \/ BossCheck

SpecBoss == InitBoss /\ [][NextBoss]_vars

\* with the failures of console and terminal calls
NextBossFaulty == NextBoss \/ BossSetupRaise \/ BossLoopRaise

SpecBossFaulty == InitBoss /\ [][NextBossFaulty]_vars

(***************************************************************************)
(* Conversation.getMessages and what a caller can do with its value        *)
(***************************************************************************)
\* An entry of an array a caller holds: the store's message object at index
\* `at`, or (at = 0) an object of the caller's own.
Shared(i) == [at |-> i, obj |-> <<>>]
Own(m) == [at |-> 0, obj |-> <<m>>]

\* part_003 lines 153-155: [...this.messages], a new array that holds the
\* store's own message objects
getMessages(msgs) == [i \in 1..Len(msgs) |-> Shared(i)]

\* the messages an array of entries shows to its reader
Contents(msgs, entries) ==
    [i \in 1..Len(entries) |->
        IF entries[i].at > 0 THEN msgs[entries[i].at] ELSE entries[i].obj[1]]

CallerMessage == UserMessage(<<"h", "i">>)
CallerContent == JsString(<<"x">>)

SnapshotFrame ==
    UNCHANGED <<runtimeSettings, runVars, gateVars, lastCompact, boss>>

\* a caller calls getMessages(); `out` keeps what the call returned
SnapshotTake ==
    /\ pc = "store"
    /\ arg' = getMessages(messages)
    /\ out' = [kind |-> "snapshot", messages |-> Contents(messages, getMessages(messages))]
    /\ pc' = "snapshot"
    /\ UNCHANGED messages
    /\ SnapshotFrame

\* returned.push(message)
CallerAppend ==
    /\ pc = "snapshot"
    /\ Len(arg) < MaxStoreLen
    /\ arg' = Append(arg, Own(CallerMessage))
    /\ UNCHANGED <<pc, messages, out>>
    /\ SnapshotFrame

\* returned.splice(i, 1)
CallerRemove ==
    /\ pc = "snapshot"
    /\ \E i \in DOMAIN arg :
        arg' = SubSeq(arg, 1, i - 1) \o SubSeq(arg, i + 1, Len(arg))
    /\ UNCHANGED <<pc, messages, out>>
    /\ SnapshotFrame

\* returned[i] = message
CallerReplace ==
    /\ pc = "snapshot"
    /\ \E i \in DOMAIN arg : arg' = [arg EXCEPT ![i] = Own(CallerMessage)]
    /\ UNCHANGED <<pc, messages, out>>
    /\ SnapshotFrame

\* returned[i].content = text: the object written is the store's own when the
\* entry came from getMessages()
CallerMutate ==
    /\ pc = "snapshot"
    /\ \E i \in DOMAIN arg :
        IF arg[i].at > 0
        THEN /\ messages' = [messages EXCEPT ![arg[i].at].content = CallerContent]
             /\ arg' = arg
        ELSE /\ arg' = [arg EXCEPT ![i] = Own([arg[i].obj[1] EXCEPT !.content = CallerContent])]
             /\ messages' = messages
    /\ UNCHANGED <<pc, out>>
    /\ SnapshotFrame

InitSnapshot ==
    /\ pc = "store"
    /\ runtimeSettings = InitSettings
    /\ messages \in {FilledStore(n) : n \in 1..3}
    /\ options = [bossMode |-> FALSE]
    /\ iterationCount = 0
    /\ toolCalls = <<>>
    /\ idx = 0
    /\ toolResults = <<>>
    /\ response = "none"
    /\ requests = 0
    /\ allToolCalls = FALSE
    /\ runStart = <<>>
    /\ ret = NoRun
    /\ InitTool
    /\ InitAux

NextSnapshot ==
    \/ SnapshotTake
    \/ CallerAppend
    \/ CallerRemove
    \/ CallerReplace
    \/ CallerMutate

SpecSnapshot == InitSnapshot /\ [][NextSnapshot]_vars

(***************************************************************************)
(* The controller with an endpoint that may ask for tools for ever.        *)
(* An unattended run has no iteration cap (loop.ts line 191), so its store *)
(* and its counters grow without bound.  For the progress property the     *)
(* store keeps its first MaxLiveStore messages and the counters stop at    *)
(* MaxLiveIterations: in unattended mode the loop test reads neither, and  *)
(* the controller reads only whether the store is over the threshold.      *)
(***************************************************************************)
MaxLiveStore == COMPACTION_THRESHOLD + 2
MaxLiveIterations == 2

Keep(msgs) ==
    IF Len(msgs) > MaxLiveStore THEN SubSeq(msgs, 1, MaxLiveStore) ELSE msgs

Sat(n) == IF n > MaxLiveIterations THEN MaxLiveIterations ELSE n

\* The endpoint answers every request: a response without choices, a final
\* text, or, at any iteration, a tool request (a command that needs approval
\* at the first request of the first cycle, an unknown tool otherwise).
LiveResponses(iteration, cycle) ==
    {Malformed("empty choices"), WellFormed(LateFinal),
     WellFormed(AssistantMessage(JsNull,
         JsArray(<<IF cycle = 1 /\ iteration = 1
                   THEN CallRm("call_1")
                   ELSE CallUnknown("call_1")>>)))}

\* loop.ts lines 222-337 for a response with at most one request
LiveRespond ==
    /\ pc = "awaitCompletion"
    /\ \E r \in LiveResponses(iterationCount, boss.cycle) :
        /\ response' = r.kind
        /\ IF IsMalformed(r)
           THEN /\ ThrowFromRun
                /\ UNCHANGED <<messages, toolCalls, idx, toolResults, gateVars>>
           ELSE /\ messages' = Keep(addAssistantMessage(messages, r.message))
                /\ IF NoToolCalls(r.message)
                   THEN /\ ReturnFromRun(FinalText(r.message))
                        /\ UNCHANGED <<toolCalls, idx, toolResults, gateVars>>
                   ELSE LET tc == r.message.tool_calls.v
                            j == NextFunctionCall(tc, 1)
                        IN  /\ toolCalls' = tc
                            /\ idx' = j
                            /\ toolResults' = <<>>
                            /\ ret' = ret
                            /\ \E toolArgs \in {parseToolArguments(tc[j].function.arguments)} :
                                   executeTool(tc[j].function.name, toolArgs)
    /\ UNCHANGED <<runtimeSettings, options, iterationCount, requests, allToolCalls,
                   runStart, lastCompact, sideVars>>

\* loop.ts lines 339-379 and 205-228 for the one request of the response:
\* its tool message joins the store and the next request is sent
LiveToolDone ==
    /\ pc = "toolDone"
    /\ messages' = Keep(addToolResults(messages,
                        <<ToolMessage(toolCalls[idx].id,
                                      truncateOutput(result.output, OutputBudget))>>))
    /\ toolCalls' = <<>>
    /\ idx' = 0
    /\ toolResults' = <<>>
    /\ command' = JsUndefined
    /\ blocked' = 0
    /\ result' = NoResult
    /\ inv' = NoInvocation
    /\ iterationCount' = Sat(iterationCount + 1)
    /\ requests' = Sat(requests + 1)
    /\ pc' = "awaitCompletion"
    /\ ret' = Running
    /\ UNCHANGED <<runtimeSettings, options, response, allToolCalls, runStart, lastCompact,
                   sideVars>>

\* /boss is typed on a terminal with the store one message under the
\* compaction threshold
InitLive ==
    /\ pc = "prompt"
    /\ runtimeSettings = [InitSettings EXCEPT !.approvalCallback = TRUE]
    /\ messages = FilledStore(COMPACTION_THRESHOLD - 1)
    /\ options = [bossMode |-> FALSE]
    /\ iterationCount = 0
    /\ toolCalls = <<>>
    /\ idx = 0
    /\ toolResults = <<>>
    /\ response = "none"
    /\ requests = 0
    /\ allToolCalls = FALSE
    /\ runStart = <<>>
    /\ ret = NoRun
    /\ InitTool
    /\ lastCompact = NoCompact
    /\ arg = <<>>
    /\ out = NoOutput
    /\ boss = NoBoss(TRUE, FALSE)

\* the operator's answer settles the approval
AskChoiceSettled == AskChoice /\ pc' # "askChoice"

NextLive ==
    \/ startBossMode
    \/ PressEsc
    \/ LiveRespond
    \/ AskChoice
    \/ AskInstruction
    \/ ExecDone
    \/ LiveToolDone
    \/ BossAfterRun
    \/ CompactRespond
    \/ BossCheck

\* Every request to the endpoint, every tool, every approval prompt and
\* every step of the controller is eventually answered or taken; the
\* operator is free never to press ESC.
LiveFairness ==
    /\ WF_vars(LiveRespond)
    /\ WF_vars(AskChoiceSettled)
    /\ WF_vars(AskInstruction)
    /\ WF_vars(ExecDone)
    /\ WF_vars(LiveToolDone)
    /\ WF_vars(BossAfterRun)
    /\ WF_vars(CompactRespond)
    /\ WF_vars(BossCheck)

SpecBossLive == InitLive /\ [][NextLive]_vars /\ LiveFairness

(***************************************************************************)
(* A session with an autonomous part followed by attended turns.           *)
(***************************************************************************)
\* index.ts lines 337-339: a request typed at the prompt after the
\* controller has returned; the first one, and the first one after a /new
AttendedTurn ==
    /\ pc = "prompt"
    /\ boss.exit = "returned"
    /\ options.bossMode \/ messages = reset
    /\ runAgentLoop(<<"l", "i", "s", "t", " ", "t", "h", "e", " ", "f", "i", "l", "e", "s">>, [bossMode |-> FALSE])
    /\ UNCHANGED <<runtimeSettings, boss>>

\* index.ts lines 306-312: /new typed at the prompt after the controller
\* has returned
NewCommand ==
    /\ pc = "prompt"
    /\ boss.exit = "returned"
    /\ messages # reset
    /\ messages' = reset
    /\ lastCompact' = NoCompact
    /\ UNCHANGED <<pc, runtimeSettings, runVars, gateVars, sideVars>>

NextBossThenAttended ==
    \/ startBossMode
    \/ PressEsc
    \/ LLMRespond
    \/ AskChoice
    \/ AskInstruction
    \/ ExecDone
    \/ ToolDone
    \/ BossAfterRun
    \/ CompactRespond
    \/ BossCheck
    \/ AttendedTurn
    \/ NewCommand

SpecBossThenAttended == InitLive /\ [][NextBossThenAttended]_vars

(***************************************************************************)
(* parseToolArguments applied to payloads (SpecParse)                      *)
(***************************************************************************)
\* the arguments strings a model may send as toolCall.function.arguments
Payloads ==
    LET keys == {<<"\"", "p", "a", "t", "h", "\"">>, <<"p", "a", "t", "h">>, <<"'", "p", "a", "t", "h", "'">>}
        separators == {<<":", " ">>, <<":">>}
        values == {<<"\"", "h", "e", "l", "l", "o", ".", "p", "y", "\"">>, <<"h", "e", "l", "l", "o", ".", "p", "y">>, <<"'", "h", "e", "l", "l", "o", ".", "p", "y", "'">>, <<"4", "2">>, <<"t", "r", "u", "e">>,
                   <<"n", "u", "l", "l">>, <<"[", "1", "]">>, <<"{", "}">>, <<"\"", "a", ",", " ", "b", "\"">>}
        ends == {<<"}">>, <<",", "}">>, <<",", " ", "\"", "n", "\"", ":", " ", "1", "}">>, <<" ", "}", "\n">>, <<>>}
    IN  {<<"{">> \o k \o s \o v \o e :
            k \in keys, s \in separators, v \in values, e \in ends}
        \cup {<<>>, <<" ">>, <<" ", "\n", "\t">>, <<"{", "b", "a", "d">>, <<"{", "}">>, <<" ", "{", "}", " ">>, <<"4", "2">>, <<"\"", "x", "\"">>, <<"n", "u", "l", "l">>,
              <<"[", "]">>, <<"[", "1", ",", " ", "2", "]">>, <<"{", "p", "a", "t", "h", ":", " ", "h", "e", "l", "l", "o", ".", "p", "y", "}">>, <<"{", "\"", "p", "a", "t", "h", "\"", ":", " ", "h", "e", "l", "l", "o", ".", "p", "y", "}">>,
              <<"{", "\"", "a", "\"", ":", " ", "x", ",", " ", "\"", "b", "\"", ":", " ", "y", "}">>, <<"{", "\"", "p", "a", "t", "h", "\"", ":", " ", "\"", "a", ".", "t", "x", "t", "\"", ",", " ", "\"", "c", "o", "n", "t", "e", "n", "t", "\"", ":", " ", "\"", "h", "i", "\"", "}">>}

FrameExceptOut ==
    UNCHANGED <<pc, runtimeSettings, loopVars, gateVars, lastCompact, arg, boss>>

ParseApply ==
    /\ pc = "parse"
    /\ out.kind = "none"
    /\ out' = parseToolArgumentsSteps(arg)
    /\ FrameExceptOut

InitParse ==
    /\ pc = "parse"
    /\ runtimeSettings = InitSettings
    /\ InitLoop
    /\ InitTool
    /\ lastCompact = NoCompact
    /\ arg \in Payloads
    /\ out = NoOutput
    /\ boss = NoBoss(FALSE, FALSE)

NextParse == ParseApply

SpecParse == InitParse /\ [][NextParse]_vars

(***************************************************************************)
(* processThinkingTags applied to model output (SpecThink)                 *)
(***************************************************************************)
ThinkFragments == {<<"r">>, <<" ">>, <<"<", "t", "h", "i", "n", "k", ">">>, <<"<", "/", "t", "h", "i", "n", "k", ">">>, <<"<", "t", "h", "i", "n", "k">>}

\* the texts made of at most n fragments
RECURSIVE Texts(_)
Texts(n) ==
    IF n = 0 THEN {<<>>}
    ELSE LET shorter == Texts(n - 1)
         IN  shorter \cup {t \o f : t \in shorter, f \in ThinkFragments}

\* processThinkingTags("<think>" + R + "</think>" + A)
ThinkFull ==
    /\ pc = "think"
    /\ out.full = <<>>
    /\ out' = [out EXCEPT !.full =
                 <<processThinkingTags(OpenTag \o arg.reasoning \o CloseTag \o arg.answer,
                                       runtimeSettings.showThinking)>>]
    /\ FrameExceptOut

\* processThinkingTags(R + "</think>" + A)
ThinkPartial ==
    /\ pc = "think"
    /\ out.partial = <<>>
    /\ out' = [out EXCEPT !.partial =
                 <<processThinkingTags(arg.reasoning \o CloseTag \o arg.answer,
                                       runtimeSettings.showThinking)>>]
    /\ FrameExceptOut

\* processThinkingTags(A), A being any content
ThinkPlain ==
    /\ pc = "think"
    /\ out.plain = <<>>
    /\ out' = [out EXCEPT !.plain =
                 <<processThinkingTags(arg.answer, runtimeSettings.showThinking)>>]
    /\ FrameExceptOut

InitThink ==
    /\ pc = "think"
    /\ \E show \in BOOLEAN : runtimeSettings = [InitSettings EXCEPT !.showThinking = show]
    /\ InitLoop
    /\ InitTool
    /\ lastCompact = NoCompact
    /\ arg \in [reasoning : Texts(MaxPieces), answer : Texts(MaxPieces)]
    /\ out = [kind |-> "think", full |-> <<>>, partial |-> <<>>, plain |-> <<>>]
    /\ boss = NoBoss(FALSE, FALSE)

NextThink == ThinkFull \/ ThinkPartial \/ ThinkPlain

SpecThink == InitThink /\ [][NextThink]_vars

(***************************************************************************)
(* Properties of the command risk gate (checked under SpecGate).           *)
(***************************************************************************)
LsLa == JsString(<<"l", "s", " ", "-", "l", "a">>)
RmRf == JsString(<<"r", "m", " ", "-", "r", "f", " ", "/", "t", "m", "p", "/", "x">>)

\* No dangerous-pattern rule matches the command string.
NoRuleMatches(cmd) ==
    \A n \in 1..Len(BLOCKED_PATTERNS) : ~PatternTest(n, StringOf(cmd))

Invoked == pc # "idle"

\* C1: within one run_command invocation the shell command is handed to exec
\* only if no rule matches it, or a rule matches and the approval callback
\* answered "yes" in this invocation; after "no", "instruct" or without a
\* callback a gated command is never handed to exec.
C1_ExecOnlyIfSafeOrApproved ==
    /\ (inv.execStarted \/ pc = "exec")
          => (NoRuleMatches(command) \/ inv.response = "yes")
    /\ (Invoked /\ ~NoRuleMatches(command)
          /\ (inv.response \in {"no", "instruct"} \/ ~inv.callback))
          => (~inv.execStarted /\ pc # "exec")

C1_Witness ==
    /\ pc = "toolDone"
    /\ ~NoRuleMatches(command)
    /\ inv.response = "yes"
    /\ inv.execStarted
    /\ result.success

\* C2: a "no" answer for a gated command makes execute return success = false
\* and silent = true, and exec is never started.
C2_RejectIsSilentFailure ==
    inv.response = "no"
        => /\ pc = "toolDone"
           /\ result.success = FALSE
           /\ result.silent = TRUE
           /\ ~inv.execStarted

C2_Witness ==
    /\ pc = "toolDone"
    /\ inv.response = "no"
    /\ blocked # 0
    /\ runtimeSettings.approvalCallback

\* C3: an "instruct" answer returns the same silent failure as a rejection,
\* exec is never started, and the output contains the operator's instruction.
C3_InstructIsSilentFailureWithText ==
    inv.response = "instruct"
        => /\ pc = "toolDone"
           /\ result.success = FALSE
           /\ result.silent = TRUE
           /\ ~inv.execStarted
           /\ Contains(result.output, inv.message)

C3_Witness ==
    /\ pc = "toolDone"
    /\ inv.response = "instruct"
    /\ inv.message = <<"u", "s", "e", " ", "l", "s">>
    /\ blocked # 0

\* C4: a gated command without an approval callback returns at once with
\* success = false and an output naming the matched rule's reason; exec is
\* not started and no approval call is made.
C4_BlockedWithoutCallback ==
    (Invoked /\ ~NoRuleMatches(command) /\ ~runtimeSettings.approvalCallback)
        => /\ pc = "toolDone"
           /\ result.success = FALSE
           /\ Contains(result.output, BLOCKED_PATTERNS[checkBlocklist(command)].reason)
           /\ ~inv.execStarted
           /\ inv.asked = 0
           /\ inv.response = "none"

C4_Witness ==
    /\ pc = "toolDone"
    /\ blocked = 14
    /\ ~runtimeSettings.approvalCallback
    /\ ~result.success

\* C5: a command no rule matches ("ls -la" among them) goes straight to exec
\* with no approval call, with or without a callback; "rm -rf /tmp/x" is
\* classified as requiring approval.
C5_SafeDirectDangerousGated ==
    /\ (Invoked /\ NoRuleMatches(command))
          => (inv.asked = 0 /\ inv.execStarted /\ pc \in {"exec", "toolDone"})
    /\ (Invoked /\ command = LsLa) => (blocked = 0 /\ inv.asked = 0 /\ inv.execStarted)
    /\ (Invoked /\ command = RmRf)
          => /\ blocked # 0
             /\ inv.execStarted => inv.response = "yes"
             /\ inv.callback => inv.asked = 1

C5_Witness ==
    /\ pc = "toolDone"
    /\ command = LsLa
    /\ runtimeSettings.approvalCallback
    /\ inv.asked = 0
    /\ result.success

\* C6: after a "no" answer the output text of the returned result contains
\* neither "executed" nor "completed".
C6_RejectTextNeverSaysExecuted ==
    (pc = "toolDone" /\ inv.response = "no")
        => /\ ~Contains(result.output, <<"e", "x", "e", "c", "u", "t", "e", "d">>)
           /\ ~Contains(result.output, <<"c", "o", "m", "p", "l", "e", "t", "e", "d">>)

(***************************************************************************)
(* The agent loop (Spec)                                                   *)
(***************************************************************************)
\* the messages the current (or last) run has put into the store
RunMessages == SubSeq(messages, Len(runStart) + 1, Len(messages))
RunOver == pc = "prompt" /\ ret.kind \in {"returned", "threw"}
StoreKept == Len(messages) > Len(runStart)
ToolPcs == {"askChoice", "askInstruction", "exec", "awaitTool", "toolDone"}
HasToolCalls(m) == m.tool_calls.t = "array" /\ m.tool_calls.v # <<>>
CountRole(seq, r) == Cardinality({i \in DOMAIN seq : seq[i].role = r})

\* C7: an attended run whose every response carries tool calls issues exactly
\* 10 completion requests, never more, and then returns a text: it does not
\* throw.
C7_TenRequestsThenString ==
    /\ (ret.kind # "none" /\ ~options.bossMode) => requests <= 10
    /\ (RunOver /\ allToolCalls)
          => /\ ret.kind = "returned"
             /\ requests = 10
             /\ ret.value \in Seq(STRING)

C7_Witness ==
    /\ RunOver
    /\ allToolCalls
    /\ requests = 10
    /\ ret.kind = "returned"
    /\ ~options.bossMode

\* C8: the run ends at the first assistant message without tool calls (list
\* absent or empty): while the run goes on every assistant message of it
\* carries tool calls, and when it has returned that way the message is the
\* last of the store (no tool message after it), every earlier one carried
\* tool calls, and no request was issued after the one it answered.
C8_EndsAtFirstPlainMessage ==
    LET run == RunMessages
        n == Len(run)
    IN  /\ ret.kind = "running"
            => \A i \in 1..n : run[i].role = "assistant" => HasToolCalls(run[i])
        /\ (RunOver /\ ret.kind = "returned" /\ ~allToolCalls /\ StoreKept)
            => /\ run[n].role = "assistant"
               /\ ~HasToolCalls(run[n])
               /\ \A i \in 1..(n - 1) : run[i].role = "assistant" => HasToolCalls(run[i])
               /\ requests = CountRole(run, "assistant")

C8_Witness ==
    /\ RunOver
    /\ ret.kind = "returned"
    /\ ~allToolCalls
    /\ requests = 2
    /\ messages[Len(messages)].role = "assistant"
    /\ messages[Len(messages)].tool_calls = JsUndefined
    /\ messages[Len(messages) - 1].role = "tool"

Extends(old, new) == Len(new) >= Len(old) /\ SubSeq(new, 1, Len(old)) = old
Added(old, new) == SubSeq(new, Len(old) + 1, Len(new))
AllTool(seq) == \A i \in DOMAIN seq : seq[i].role = "tool"

\* C9: a run changes the store only by appending: the user message, once, as
\* it starts; for a well-formed response exactly one assistant message, then
\* tool messages only; nothing for a malformed response.  When a tool call
\* is dispatched its assistant message is already the last of the store.
C9_StoreOnlyAppended ==
    [][ (ret.kind = "running" \/ ret'.kind = "running")
          => /\ Extends(messages, messages')
             /\ LET new == Added(messages, messages')
                IN  IF ret.kind # "running"
                    THEN Len(new) = 1 /\ new[1].role = "user"
                    ELSE IF pc = "awaitCompletion"
                    THEN IF ret'.kind = "threw"
                         THEN new = <<>>
                         ELSE /\ Len(new) >= 1
                              /\ new[1].role = "assistant"
                              /\ AllTool(SubSeq(new, 2, Len(new)))
                    ELSE AllTool(new)
             /\ pc' \in ToolPcs
                  => /\ messages'[Len(messages')].role = "assistant"
                     /\ messages'[Len(messages')].tool_calls.v = toolCalls'
                     /\ CountRole(Added(messages, messages'), "tool") = 0 ]_vars

C9_Witness ==
    /\ pc = "awaitCompletion"
    /\ requests = 2
    /\ Len(messages) = Len(runStart) + 4
    /\ messages[Len(runStart) + 1].role = "user"
    /\ messages[Len(runStart) + 2].role = "assistant"
    /\ messages[Len(runStart) + 3].role = "tool"
    /\ messages[Len(runStart) + 4].role = "tool"

\* ids of the function-type requests of a tool-call list, in order
RECURSIVE FunctionIds(_)
FunctionIds(tc) ==
    IF tc = <<>> THEN <<>>
    ELSE (IF tc[1].type = "function" THEN <<tc[1].id>> ELSE <<>>) \o FunctionIds(Tail(tc))

\* ids of the tool messages that follow position p of the store directly
RECURSIVE ToolIdsAfter(_)
ToolIdsAfter(p) ==
    IF p + 1 <= Len(messages) /\ messages[p + 1].role = "tool"
    THEN <<messages[p + 1].tool_call_id>> \o ToolIdsAfter(p + 1)
    ELSE <<>>

\* C10: the tool messages an iteration appends are one per function-type
\* request of its assistant message, in request order, each with the id of
\* its request; a request of another type gets none.  (While the requests
\* are being executed the results are collected in the same order.)
C10_OneToolMessagePerFunctionCall ==
    /\ \A p \in DOMAIN messages :
          (messages[p].role = "assistant" /\ HasToolCalls(messages[p]))
             => IF p = Len(messages) /\ pc \in ToolPcs
                THEN [i \in DOMAIN toolResults |-> toolResults[i].tool_call_id]
                        = FunctionIds(SubSeq(toolCalls, 1, idx - 1))
                ELSE ToolIdsAfter(p) = FunctionIds(messages[p].tool_calls.v)
    /\ \A p \in DOMAIN messages :
          messages[p].role = "tool" => messages[p - 1].role \in {"assistant", "tool"}

C10_Witness ==
    \E p \in DOMAIN messages :
        /\ messages[p].role = "assistant"
        /\ HasToolCalls(messages[p])
        /\ Len(messages[p].tool_calls.v) = 3
        /\ messages[p].tool_calls.v[2].type = "custom"
        /\ ToolIdsAfter(p) = <<"call_3", "call_1">>
        /\ p + 2 < Len(messages)

(***************************************************************************)
(* The conversation store (SpecStore)                                      *)
(***************************************************************************)
\* C11: whatever reset, addUserMessage, addAssistantMessage, addToolResults
\* and compact calls were made (compactions that fail or do nothing among
\* them), the store is not empty and its first message has the role system;
\* a reset leaves that system message alone, getMessageCount() = 0.
C11_SystemMessageFirst ==
    /\ [](Len(messages) >= 1 /\ messages[1].role = "system")
    /\ [][StoreReset => (Len(messages') = 1 /\ messages'[1].role = "system"
                          /\ getMessageCount(messages') = 0)]_vars

C11_Witness ==
    /\ pc = "store"
    /\ lastCompact.outcome = "replaced"
    /\ Len(lastCompact.before) = MaxStoreLen
    /\ Len(messages) = 2
    /\ messages[1].role = "system"

\* C20: compact called on a store with fewer than 2 non-system messages
\* returns with the store as it was and no completion request sent; so does
\* a compact that directly follows a compaction that replaced the history.
C20_CompactSmallStoreIsNoop ==
    LET unchanged == /\ lastCompact.outcome = "noop"
                     /\ pc = lastCompact.caller
                     /\ messages = lastCompact.before
                     /\ ~lastCompact.requested
    IN  /\ (lastCompact.outcome # "none" /\ getMessageCount(lastCompact.before) < 2)
              => unchanged
        /\ (lastCompact.outcome # "none" /\ lastCompact.afterReplaced) => unchanged

C20_Witness ==
    /\ lastCompact.outcome = "noop"
    /\ lastCompact.afterReplaced
    /\ getMessageCount(messages) = 1

(***************************************************************************)
(* Runs, resets and compactions on one store (SpecSession)                 *)
(***************************************************************************)
\* the position of the last assistant message before position p, 0 if none
NearestAssistantBefore(p) ==
    LET before == {i \in 1..(p - 1) : messages[i].role = "assistant"}
    IN  IF before = {} THEN 0 ELSE CHOOSE i \in before : \A j \in before : j <= i

RequestIds(m) == {m.tool_calls.v[i].id : i \in DOMAIN m.tool_calls.v}

\* C12: in every store reached through runAgentLoop calls (returning or
\* throwing), resets and compactions, each tool message carries the id of a
\* tool-call request of the nearest assistant message before it.
C12_ToolMessageAnswersNearestAssistant ==
    \A p \in DOMAIN messages :
        messages[p].role = "tool"
            => LET a == NearestAssistantBefore(p)
               IN  /\ a # 0
                   /\ HasToolCalls(messages[a])
                   /\ messages[p].tool_call_id \in RequestIds(messages[a])

C12_Witness ==
    /\ pc = "prompt"
    /\ ret.kind = "threw"
    /\ Len(messages) = 5
    /\ messages[2] = CompactedStore(messages, <<"o", "k">>)[2]
    /\ messages[4].role = "assistant"
    /\ messages[5].role = "tool"
    /\ messages[5].tool_call_id = "call_1"

(***************************************************************************)
(* Failures in the agent loop (Spec)                                       *)
(***************************************************************************)
\* C13: when the response is missing, has no choices array or has no first
\* choice with a message, the run throws at once: control is back at the
\* caller with no request sent, no tool dispatched and nothing appended to
\* the store for that iteration.
C13_MalformedResponseIsFatal ==
    [][ (pc = "awaitCompletion"
         /\ response' \in {"null", "no choices", "choices not an array",
                           "empty choices", "choice without message"})
          => /\ ret'.kind = "threw"
             /\ pc' = "prompt"
             /\ requests' = requests
             /\ messages' = messages
             /\ UNCHANGED <<toolCalls, idx, toolResults, gateVars>> ]_vars

C13_Witness ==
    /\ pc = "prompt"
    /\ ret.kind = "threw"
    /\ response = "empty choices"
    /\ requests = 2
    /\ messages[Len(messages)].role = "tool"

\* C14: a tool-call request that fails never makes the run throw (only the
\* handling of a response does): the failure text becomes the tool message
\* of that request, and once the requests of the turn are done the next
\* completion request is sent (or, the cap being reached, the run returns).
C14_ToolFailureIsFedBack ==
    [][ /\ (ret'.kind = "threw" /\ ret.kind # "threw") => pc = "awaitCompletion"
        /\ (pc = "toolDone" /\ ~result.success)
              => LET m == [role |-> "tool", tool_call_id |-> toolCalls[idx].id,
                           content |-> JsString(result.output)]
                 IN  /\ ret'.kind # "threw"
                     /\ IF pc' \in ToolPcs
                        THEN toolResults'[Len(toolResults')] = m
                        ELSE /\ messages'[Len(messages')] = m
                             /\ \/ pc' = "awaitCompletion" /\ requests' = requests + 1
                                \/ /\ requests = 10
                                   /\ pc' = "prompt"
                                   /\ ret'.kind = "returned" ]_vars

C14_Witness ==
    /\ pc = "awaitCompletion"
    /\ requests = 2
    /\ messages[Len(messages)] = ToolMessage("call_1", <<"F", "a", "i", "l", "e", "d", " ", "t", "o", " ", "e", "x", "e", "c", "u", "t", "e", " ", "c", "o", "m", "m", "a", "n", "d", ":", " ", "b", "a", "d", " ", "a", "r", "g", "u", "m", "e", "n", "t">>)
    /\ messages[Len(messages) - 1].role = "assistant"

(***************************************************************************)
(* parseToolArguments (SpecParse)                                          *)
(***************************************************************************)
Applied == out.kind # "none"

OnlySpaces(s) == \A i \in DOMAIN s : IsSpace(s[i])

\* C15: a non-blank payload that is valid JSON is returned as its direct
\* parse, and no repair pass is applied.
C15_ValidPayloadIsDirectParse ==
    (Applied /\ ~OnlySpaces(arg) /\ JSON_parse(arg).ok)
        => /\ out.kind = "returned"
           /\ out.value = JSON_parse(arg).val
           /\ out.repairs = 0

C15_Witness ==
    /\ arg = <<"{", "\"", "p", "a", "t", "h", "\"", ":", " ", "4", "2", "}">>
    /\ Applied
    /\ out.repairs = 0
    /\ Prop(out.value, <<"p", "a", "t", "h">>) = [t |-> "number", v |-> <<"4", "2">>]

\* C16: the payload {path: hello.py} is recovered by the one repair pass to
\* the arguments with path = "hello.py".
C16_UnquotedPairRecovers ==
    (arg = <<"{", "p", "a", "t", "h", ":", " ", "h", "e", "l", "l", "o", ".", "p", "y", "}">> /\ Applied)
        => /\ out.repairs = 1
           /\ Prop(out.value, <<"p", "a", "t", "h">>) = JsString(<<"h", "e", "l", "l", "o", ".", "p", "y">>)

\* C17: parseToolArguments always returns: {} for an empty or whitespace-only
\* payload without any parse, {} for a payload that fails the direct parse
\* and the parse of its one repair (such as "{bad"); it never repairs twice.
C17_NeverThrowsFallsBackToEmpty ==
    Applied
        => /\ out.kind = "returned"
           /\ out.repairs <= 1
           /\ out.parses <= 2
           /\ OnlySpaces(arg) => (out.value = JsObject(EmptyMap) /\ out.parses = 0)
           /\ (~JSON_parse(arg).ok /\ ~JSON_parse(QuoteBareValues(arg, 1)).ok)
                 => out.value = JsObject(EmptyMap)
           /\ arg = <<"{", "b", "a", "d">> => (out.value = JsObject(EmptyMap) /\ out.repairs = 1)

C17_Witness ==
    /\ arg = <<"{", "b", "a", "d">>
    /\ Applied
    /\ out.kind = "returned"
    /\ out.parses = 2
    /\ out.value = JsObject(EmptyMap)

(***************************************************************************)
(* processThinkingTags (SpecThink)                                         *)
(***************************************************************************)
FullApplied == pc = "think" /\ out.full # <<>>

\* res holds a reasoning section with the text r and, after it, a response
\* section that ends res with the text a
SectionsInOrder(res, r, a) ==
    LET l == Len(res) - Len(a) + 1
    IN  /\ l >= 1
        /\ Tail_(res, l) = a
        /\ \E i \in 1..l :
              /\ LitAt(res, i, <<" ", "T", "h", "i", "n", "k", "i", "n", "g", " ">>)
              /\ \E j \in (i + Len(<<" ", "T", "h", "i", "n", "k", "i", "n", "g", " ">>))..l :
                    /\ LitAt(res, j, r)
                    /\ \E k \in (j + Len(r))..l :
                          /\ LitAt(res, k, <<" ", "R", "e", "s", "p", "o", "n", "s", "e", " ">>)
                          /\ k + Len(<<" ", "R", "e", "s", "p", "o", "n", "s", "e", " ">>) <= l

HasCloseTag(s) == Contains(s, CloseTag)

HasThinkBlock(s) ==
    \E i, j \in 1..Len(s) :
        LitAt(s, i, OpenTag) /\ LitAt(s, j, CloseTag) /\ i + Len(OpenTag) <= j

\* C18 as stated: for <think>R</think>A with non-empty R the result is A
\* when the toggle is off, and a rendering with R in a reasoning section
\* before A in a response section when it is on.
C18_Original ==
    (FullApplied /\ arg.reasoning # <<>>)
        => IF runtimeSettings.showThinking
           THEN SectionsInOrder(out.full[1], arg.reasoning, arg.answer)
           ELSE out.full[1] = arg.answer

\* C18 amended: for <think>R</think>A where R holds no closing tag and
\* something besides whitespace, and A holds no <think>...</think> block, the
\* result is A without its surrounding whitespace when the toggle is off, and
\* a rendering with R in a reasoning section before A in a response section,
\* both without their surrounding whitespace, when it is on.
C18_TrimmedAnswerOrBothSections ==
    (FullApplied /\ ~OnlySpaces(arg.reasoning) /\ ~HasCloseTag(arg.reasoning)
       /\ ~HasThinkBlock(arg.answer))
        => IF runtimeSettings.showThinking
           THEN SectionsInOrder(out.full[1], trim(arg.reasoning), trim(arg.answer))
           ELSE out.full[1] = trim(arg.answer)

C18_Witness ==
    /\ FullApplied
    /\ runtimeSettings.showThinking
    /\ arg.reasoning = <<" ", "r">>
    /\ arg.answer = <<"r", " ">>
    /\ SectionsInOrder(out.full[1], <<"r">>, <<"r">>)
    /\ ~SectionsInOrder(out.full[1], <<" ", "r">>, <<"r", " ">>)

HasTag(s) == Contains(s, OpenTag) \/ Contains(s, CloseTag)

\* C19: for R and A without thinking tags, R</think>A gives the same result
\* as <think>R</think>A, whatever the visibility toggle.
C19_MissingOpeningTagSameResult ==
    (pc = "think" /\ out.full # <<>> /\ out.partial # <<>>
       /\ ~HasTag(arg.reasoning) /\ ~HasTag(arg.answer))
        => out.partial = out.full

C19_Witness ==
    /\ pc = "think"
    /\ ~runtimeSettings.showThinking
    /\ arg.reasoning = <<"<", "t", "h", "i", "n", "k">>
    /\ arg.answer = <<"r", "<", "t", "h", "i", "n", "k">>
    /\ out.full = <<<<"r", "<", "t", "h", "i", "n", "k">>>>
    /\ out.partial = out.full

(***************************************************************************)
(* Compaction results (SpecStore)                                          *)
(***************************************************************************)
\* the message is a user message that wraps one of the summary texts
WrapsSummary(m) ==
    /\ m.role = "user"
    /\ LitAt(m.content.v, 1, <<"[", "C", "O", "N", "T", "E", "X", "T", " ", "F", "R", "O", "M", " ", "P", "R", "E", "V", "I", "O", "U", "S", " ", "W", "O", "R", "K", "]">>)
    /\ \E r \in SummaryResponses :
          r.text # <<>> /\ Contains(m.content.v, r.text)

CompactedForm ==
    /\ Len(messages) = 2
    /\ messages[1] = lastCompact.before[1]
    /\ messages[1].role = "system"
    /\ WrapsSummary(messages[2])

\* C21: a summarization answer with text makes compact replace the history,
\* whatever its size, by the system message it began with followed by one
\* user message wrapping the summary; getMessageCount() is then 1.
C21_SummaryReplacesHistory ==
    /\ lastCompact.answer = "text" => lastCompact.outcome = "replaced"
    /\ lastCompact.outcome = "replaced"
          => /\ lastCompact.answer = "text"
             /\ CompactedForm
             /\ getMessageCount(messages) = 1

C21_Witness ==
    /\ pc = "store"
    /\ lastCompact.outcome = "replaced"
    /\ Len(lastCompact.before) = 3
    /\ messages = <<SystemMessage,
                    UserMessage(<<"[", "C", "O", "N", "T", "E", "X", "T", " ", "F", "R", "O", "M", " ", "P", "R", "E", "V", "I", "O", "U", "S", " ", "W", "O", "R", "K", "]", "\n", "o", "k", "\n", "\n", "[", "C", "o", "n", "t", "i", "n", "u", "e", " ", "f", "r", "o", "m", " ", "h", "e", "r", "e", "]">>)>>

\* C22: a summarization answer without text (no choice, no message, null or
\* empty content) leaves the history as it was; after any compact call the
\* history is as before the call or in the two-message compacted form.
C22_NoSummaryKeepsHistory ==
    /\ lastCompact.answer \in {"no choices", "empty choices", "choice without message",
                               "null content", "empty content"}
          => (lastCompact.outcome = "kept" /\ messages = lastCompact.before)
    /\ lastCompact.outcome # "none"
          => (messages = lastCompact.before \/ CompactedForm)
    /\ lastCompact.outcome \in {"noop", "pending", "kept", "threw"}
          => messages = lastCompact.before

C22_Witness ==
    /\ pc = "store"
    /\ lastCompact.answer = "empty content"
    /\ lastCompact.outcome = "kept"
    /\ Len(messages) = MaxStoreLen
    /\ messages = lastCompact.before

(***************************************************************************)
(* The safety exit and the order of dispatch (Spec)                        *)
(***************************************************************************)
SafetyExit == RunOver /\ StoreKept /\ allToolCalls /\ ~options.bossMode

HasText(m) == "content" \in DOMAIN m /\ m.content.t = "string"

\* the content of the last message of msgs that has text
MostRecentText(msgs) ==
    LET textual == {i \in DOMAIN msgs : HasText(msgs[i])}
    IN  msgs[CHOOSE i \in textual : \A k \in textual : k <= i].content.v

ExecutingPcs == {"askChoice", "askInstruction", "exec", "awaitTool"}

\* C29: the requests of one turn are dispatched one at a time in the order
\* of the list: a dispatch happens only when the response has just arrived
\* or the previous request has its result, it takes the next function call
\* of the list, and while a tool executes (approval prompt included) no
\* other request is dispatched and no completion request is sent.
C29_OneToolAtATimeInOrder ==
    [][ /\ (idx' # idx /\ idx' # 0)
           => /\ pc \in {"awaitCompletion", "toolDone"}
              /\ idx' > idx
              /\ idx' \in DOMAIN toolCalls'
              /\ toolCalls'[idx'].type = "function"
              /\ \A k \in (idx + 1)..(idx' - 1) : toolCalls'[k].type # "function"
              /\ pc = "toolDone"
                    => /\ toolCalls' = toolCalls
                       /\ Len(toolResults') = Len(toolResults) + 1
                       /\ toolResults'[Len(toolResults')].tool_call_id = toolCalls[idx].id
        /\ pc \in ExecutingPcs
           => /\ idx' = idx
              /\ toolCalls' = toolCalls
              /\ toolResults' = toolResults
              /\ requests' = requests
              /\ messages' = messages
        /\ requests' # requests
           => /\ pc \notin ExecutingPcs
              /\ pc = "toolDone"
                    => \A k \in (idx + 1)..Len(toolCalls) : toolCalls[k].type # "function"
      ]_vars

C29_Witness ==
    /\ pc = "toolDone"
    /\ idx = 2
    /\ toolCalls = <<CallRm("call_1"), CallNoCommand("call_2")>>
    /\ Len(toolResults) = 1
    /\ toolResults[1].tool_call_id = "call_1"


(***************************************************************************)
(* Autonomous mode                                                         *)
(***************************************************************************)
\* C23: needsCompaction() is true exactly when the message count that
\* getMessageCount() reports (system message excluded) exceeds 30, and false
\* for every smaller count.  The controller's call after a run is the place
\* where both are evaluated.
C23_CompactionAboveThirty ==
    boss.needs # "none" =>
        ((boss.needs = "yes") <=> (boss.count > COMPACTION_THRESHOLD))

\* C25: on every exit from startBossMode, by interruption or by an exception,
\* both flags are false, the keypress listener is removed and the raw mode
\* is the one found at entry.
C25_CleanupOnEveryExit ==
    boss.exit # "none" =>
        /\ ~runtimeSettings.bossMode
        /\ ~runtimeSettings.bossInterrupted
        /\ ~boss.listening
        /\ boss.isRaw = boss.wasRaw

CyclePcs ==
    {"awaitCompletion", "askChoice", "askInstruction", "exec", "toolDone",
     "bossAfterRun", "awaitSummary"}

\* C26: the interrupt flag is read only between cycles.  Setting it changes
\* nothing but the flag, so the cycle in flight goes on; once it is set no
\* further cycle is started; and the controller leaves only between cycles,
\* in the cycle in which the flag was set.
C26_InterruptReadBetweenCycles ==
    [][/\ (runtimeSettings'.bossInterrupted /\ ~runtimeSettings.bossInterrupted)
            => UNCHANGED <<pc, loopVars, gateVars, lastCompact>>
       /\ runtimeSettings.bossInterrupted => boss'.cycle = boss.cycle
       /\ (pc \in CyclePcs /\ boss.exit = "none") => boss'.exit = "none"
       /\ boss'.exit = "returned"
            => /\ pc = "bossCheck"
               /\ runtimeSettings.bossInterrupted
               /\ ret.kind \in {"returned", "threw"}
               /\ boss.escCycle = boss.cycle]_vars

\* ESC came while the first cycle waited at the approval prompt; the command
\* was approved and run, the run returned, and the controller left after
\* that cycle.
C26_Witness ==
    /\ boss.exit = "returned"
    /\ boss.escAt = "askChoice"
    /\ boss.cycle = 1
    /\ ret.kind = "returned"
    /\ \E i \in DOMAIN messages :
        /\ messages[i].role = "tool"
        /\ messages[i].content = JsString(<<"o", "u", "t">>)

\* C27: when the Agent Loop call of a cycle throws and the interrupt flag is
\* not set, the controller does not exit: its next step starts the next cycle
\* with the counter one higher and the same continuation instruction.
C27_ThrownCycleContinues ==
    [][/\ (pc = "bossCheck" /\ ret.kind = "threw"
           /\ ~runtimeSettings.bossInterrupted /\ ~runtimeSettings'.bossInterrupted)
            => /\ boss'.cycle = boss.cycle + 1
               /\ boss'.exit = "none"
               /\ runtimeSettings'.bossMode
               /\ options'.bossMode
               /\ pc' = "awaitCompletion"
               /\ messages' = Append(messages, UserMessage(BOSS_CONTINUATION_PROMPT))
       /\ (pc = "awaitCompletion" /\ options.bossMode /\ ret'.kind = "threw")
            => /\ pc' = "bossCheck"
               /\ boss' = boss]_vars

\* The first cycle threw at its first response and the second cycle began.
C27_Witness ==
    /\ boss.cycle = 2
    /\ boss.exit = "none"
    /\ pc = "awaitCompletion"
    /\ messages = <<SystemMessage, UserMessage(BOSS_CONTINUATION_PROMPT),
                    UserMessage(BOSS_CONTINUATION_PROMPT)>>

\* C28: after every cycle, if needsCompaction() holds at the end of the cycle
\* then compact is invoked before the next cycle's Agent Loop call begins.
C28_CompactBeforeNextCycle ==
    [][(boss'.cycle = boss.cycle + 1 /\ boss.cycle >= 1 /\ needsCompaction(messages))
            => boss.compacted = boss.cycle]_vars

\* C24: nothing a caller does to the value getMessages() returned (appending,
\* removing or replacing entries, or writing to a returned message) changes
\* the store: a later getMessages() shows the same messages with the same
\* contents as the earlier one.
C24_SnapshotIsolatesStore ==
    out.kind = "snapshot" =>
        Contents(messages, getMessages(messages)) = out.messages

AllIds(tc) == [i \in DOMAIN tc |-> tc[i].id]

\* C33: whenever a completion request is sent, every tool-call
\* request of every assistant message in the history, whatever its declared
\* type, is answered by a tool message with its id.
C33_EveryRequestAnswered ==
    pc = "awaitCompletion" =>
        \A p \in DOMAIN messages :
            (messages[p].role = "assistant" /\ HasToolCalls(messages[p]))
                => ToolIdsAfter(p) = AllIds(messages[p].tool_calls.v)

\* C32: with the visibility toggle off, or when no reasoning was found, the
\* text processThinkingTags returns holds no thinking tag, opening or
\* closing, whatever the content.
C32_HiddenOutputHasNoTag ==
    (pc = "think" /\ out.plain # <<>>
     /\ (~runtimeSettings.showThinking \/ ExtractThinking(arg.answer).thinking = <<>>))
        => ~HasTag(out.plain[1])

\* C34: for every payload string parseToolArguments returns an argument set
\* (a key-value object, possibly empty), never null, a scalar or a list.
C34_AlwaysAnArgumentSet ==
    Applied => (out.kind = "returned" /\ out.value.t = "object")

(***************************************************************************)
(* Approval across invocations                                             *)
(***************************************************************************)
\* C35: approval is per invocation and never remembered: every invocation
\* of a gated command with an approval callback configured makes exactly
\* one approval call before any execution, and the command reaches exec
\* only after "yes" was answered in this same invocation, whatever was
\* approved in earlier invocations.
C35_ApprovalPerInvocation ==
    (Invoked /\ ~NoRuleMatches(command) /\ inv.callback) =>
        /\ inv.asked = 1
        /\ (pc = "exec" \/ inv.execStarted) => inv.response = "yes"
        /\ (pc = "askChoice" \/ pc = "askInstruction") => inv.response = "none"

\* the identical command was approved in an earlier invocation; this
\* invocation asked again, was answered "no" and did not execute
C35_Witness ==
    /\ pc = "toolDone"
    /\ ~NoRuleMatches(command)
    /\ inv.callback
    /\ inv.approvedEarlier = command
    /\ inv.asked = 1
    /\ inv.response = "no"
    /\ ~inv.execStarted
    /\ result = RejectResult(command)

(***************************************************************************)
(* The two flags of the autonomous mode                                    *)
(***************************************************************************)
\* C36: in every state the interrupt flag is true only if the autonomous
\* flag is true, the autonomous flag is true only while startBossMode is
\* running, and both flags are false whenever the attended prompt reads the
\* operator's input.
C36_FlagsFollowController ==
    /\ runtimeSettings.bossInterrupted => runtimeSettings.bossMode
    /\ runtimeSettings.bossMode => pc \in CyclePcs \cup {"bossCheck"}
    /\ pc = "prompt" =>
          (~runtimeSettings.bossMode /\ ~runtimeSettings.bossInterrupted)

(***************************************************************************)
(* Progress of the controller after ESC                                    *)
(***************************************************************************)
\* C37: once the interrupt flag is set during the autonomous mode, the
\* controller eventually exits and the attended prompt is back, whatever
\* the endpoint answers, as long as every request, tool and approval is
\* answered.
C37_InterruptEventuallyExits ==
    (runtimeSettings.bossMode /\ runtimeSettings.bossInterrupted) ~> (pc = "prompt")

(***************************************************************************)
(* The store across a whole call of runAgentLoop                           *)
(***************************************************************************)
\* C38: runAgentLoop only appends.  While a call is in flight and when it
\* returns or throws, the store as it was before the call is a prefix of the
\* store; a call that throws leaves the store as its last iteration left
\* it, with the user message and the assistant and tool messages of the
\* earlier iterations still in place.
C38_CallKeepsEarlierHistory ==
    /\ [](ret.kind = "running" =>
            /\ Extends(runStart, messages)
            /\ Len(messages) > Len(runStart)
            /\ messages[Len(runStart) + 1].role = "user")
    /\ [][(ret.kind = "running" /\ ret'.kind \in {"returned", "threw"}) =>
            /\ Extends(runStart, messages')
            /\ Extends(messages, messages')
            /\ runStart' = runStart
            /\ ret'.kind = "threw" => messages' = messages]_vars

\* a call that began with two messages in the store has thrown at its
\* second request; the user message, the assistant message and the tool
\* message of its first iteration are in the store after the earlier two
C38_Witness ==
    /\ pc = "prompt"
    /\ ret.kind = "threw"
    /\ requests = 2
    /\ Len(runStart) = 2
    /\ Extends(runStart, messages)
    /\ Len(messages) = 5
    /\ messages[3].role = "user"
    /\ messages[4].role = "assistant"
    /\ messages[5].role = "tool"

(***************************************************************************)
(* Who compacts the store                                                  *)
(***************************************************************************)
\* C39: compact is called only by the autonomous controller, and there only
\* after a cycle whose runAgentLoop call returned; no step of an attended
\* turn calls it, so outside the autonomous mode the number of messages
\* never goes down except by the reset of /new.
C39_CompactionOnlyByController ==
    [][ /\ (lastCompact' # lastCompact /\ lastCompact'.outcome \in {"noop", "pending"})
            => /\ pc = "bossAfterRun"
               /\ runtimeSettings.bossMode
               /\ options.bossMode
               /\ ret.kind = "returned"
        /\ (pc' = "awaitSummary" /\ pc # "awaitSummary") => pc = "bossAfterRun"
        /\ Len(messages') < Len(messages)
            => \/ pc = "awaitSummary" /\ runtimeSettings.bossMode
               \/ pc = "prompt" /\ pc' = "prompt" /\ messages' = reset
        /\ (~runtimeSettings.bossMode /\ ~(pc = "prompt" /\ pc' = "prompt"))
            => Extends(messages, messages') ]_vars

\* an attended turn has returned with the store over the compaction
\* threshold, after an autonomous session, and no compaction was called
C39_Witness ==
    /\ pc = "prompt"
    /\ boss.exit = "returned"
    /\ ~options.bossMode
    /\ ret.kind = "returned"
    /\ needsCompaction(messages)
    /\ lastCompact = NoCompact

====
